---- MODULE Spec2Model ----
(***************************************************************************)
(* HAZE client SDKs: canonical signing payload (TypeScript, Unity, Unreal), *)
(* transaction signing and address derivation.                              *)
(*                                                                          *)
(* Bytes are naturals 0..255, byte arrays are sequences of bytes, strings   *)
(* are sequences of UTF-16 code units (as in JavaScript, C# and Unreal's    *)
(* FString).  Unsigned 64-bit quantities are naturals; the inputs stay      *)
(* below 2^31 so that every intermediate value is exact.                    *)
(***************************************************************************)
EXTENDS Integers, Sequences, FiniteSets, TLC

VARIABLES tx, base, changed, payload, basePayload, keyPair, signed, address,
          transport, pool, request, quote, wire, decoded,
          objects, hashes, given, produced, node, submission,
          config, workers, stats, submitted

\* a transaction, what the SDKs computed from it, and its transport forms
txVars ==
  <<tx, base, changed, payload, basePayload, keyPair, signed, address, transport>>

\* a liquidity pool, a requested computation, and each SDK's answer
economyVars == <<pool, request, quote>>

\* a string received from the wire and what each decoder made of it
codecVars == <<wire, decoded>>

\* the transaction objects an application holds, and the hashes taken of them
lifecycleVars == <<objects, hashes>>

\* byte arrays handed to a builder, encoder or signing function, and what
\* each of them made of it
guardVars == <<given, produced>>

\* the node's answer to a submission, and the submit call in progress
submitVars == <<node, submission>>

\* a load-test run: its configuration, its senders, its counters and the
\* transactions it has submitted
loadVars == <<config, workers, stats, submitted>>

clientVars == <<lifecycleVars, guardVars, submitVars, loadVars>>

vars == <<txVars, economyVars, codecVars, clientVars>>

(***************************************************************************)
(* Bounds of the model                                                      *)
(***************************************************************************)
\* number of key pairs (private seeds 1..NumKeys)
NumKeys == 2
\* how far a changed fee or nonce lies from the original value
MaxStep == 1

\* turns of the square-root loop the model follows (a product below 2^128
\* needs fewer than 80)
MaxNewtonTurns == 128

(***************************************************************************)
(* Byte and string helpers                                                  *)
(***************************************************************************)
\* a 32-byte array filled with n (bytes32 of the tests)
bytes32(n) == [i \in 1..32 |-> n % 256]

Take(s, n) == IF n >= Len(s) THEN s ELSE SubSeq(s, 1, n)

\* ASCII string literals used by the encoders
StrTransfer == <<84, 114, 97, 110, 115, 102, 101, 114>>
StrStake == <<83, 116, 97, 107, 101>>
StrContractCall == <<67, 111, 110, 116, 114, 97, 99, 116, 67, 97, 108, 108>>
StrMistbornAsset == <<77, 105, 115, 116, 98, 111, 114, 110, 65, 115, 115, 101, 116>>

\* UTF-8 encoding of one UTF-16 code unit (basic multilingual plane)
Utf8Unit(c) ==
  IF c < 128 THEN <<c>>
  ELSE IF c < 2048 THEN <<192 + (c \div 64), 128 + (c % 64)>>
  ELSE <<224 + (c \div 4096), 128 + ((c \div 64) % 64), 128 + (c % 64)>>

RECURSIVE Utf8(_)
\* TextEncoder.encode / Encoding.UTF8.GetBytes / FTCHARToUTF8
Utf8(s) == IF s = <<>> THEN <<>> ELSE Utf8Unit(Head(s)) \o Utf8(Tail(s))

RECURSIVE concatBytes(_)
\* concatBytes / ConcatBytes: the chunks one after another
concatBytes(chunks) ==
  IF chunks = <<>> THEN <<>> ELSE Head(chunks) \o concatBytes(Tail(chunks))

RECURSIVE u64leLoop(_, _)
u64leLoop(v, i) ==
  IF i = 8 THEN <<>> ELSE <<v % 256>> \o u64leLoop(v \div 256, i + 1)

\* u64le (TypeScript) / U64LE (Unity): 8 bytes, least significant first
u64le(value) == u64leLoop(value, 0)

\* the range check of u64le; the upper limit 2^64 - 1 lies beyond the inputs
u64InRange(value) == value >= 0

(***************************************************************************)
(* Enumerations and optional values                                         *)
(***************************************************************************)
\* AssetAction and DensityLevel: string-valued enums in TypeScript
AssetAction == {"Create", "Update", "Condense", "Evaporate", "Merge", "Split"}

DensityLevel == {"Ethereal", "Light", "Dense", "Core"}

\* an optional value is <<>> (unset, null) or <<v>> (set)
None == <<>>

Some(v) == <<v>>

\* the result of a call: a value, or a thrown exception
Ok(b) == [ok |-> TRUE, bytes |-> b]

Throw == [ok |-> FALSE, bytes |-> <<>>]

\* an absent object (no transaction, no result yet)
Nil == [nil |-> TRUE]

\* the parts of the state a specification does not use stay unset
NoLifecycle == objects = Nil /\ hashes = Nil
NoGuard == given = Nil /\ produced = Nil
NoSubmit == node = Nil /\ submission = Nil
NoLoad == config = Nil /\ workers = Nil /\ stats = Nil /\ submitted = Nil

(***************************************************************************)
(* TypeScript SDK: canonical payload                                        *)
(***************************************************************************)
actionToByteFlipped(action) ==
  CASE action = "Create" -> 0
    [] action = "Update" -> 1
    [] action = "Condense" -> 3
    [] action = "Evaporate" -> 2
    [] action = "Merge" -> 4
    [] action = "Split" -> 5

actionToByte(action) ==
  CASE action = "Create" -> 0
    [] action = "Update" -> 1
    [] action = "Condense" -> 2
    [] action = "Evaporate" -> 3
    [] action = "Merge" -> 4
    [] action = "Split" -> 5

densityToByte(density) ==
  CASE density = "Ethereal" -> 0
    [] density = "Light" -> 1
    [] density = "Dense" -> 2
    [] density = "Core" -> 3

\* the u64 fields getTransactionDataForSigning passes to u64le
tsU64Fields(t) ==
  CASE t.type = "Transfer" -> {t.amount, t.fee, t.nonce}
    [] t.type = "Stake" -> {t.amount}
    [] t.type = "ContractCall" -> {t.gas_limit}
    [] t.type = "MistbornAsset" -> {}

tsChunks(t) ==
  CASE t.type = "Transfer" ->
         <<Utf8(StrTransfer), t.from, t.to, u64le(t.amount), u64le(t.fee),
           u64le(t.nonce)>>
    [] t.type = "Stake" ->
         <<Utf8(StrStake), t.validator, u64le(t.amount)>>
    [] t.type = "ContractCall" ->
         <<Utf8(StrContractCall), t.contract, Utf8(t.method), <<0>>,
           u64le(t.gas_limit), t.args>>
    [] t.type = "MistbornAsset" ->
         <<Utf8(StrMistbornAsset), <<actionToByte(t.action)>>, t.asset_id,
           t.data.owner, <<densityToByte(t.data.density)>>>>

\* getTransactionDataForSigning (TypeScript): u64le throws on an out-of-range value
getTransactionDataForSigning(t) ==
  IF \A v \in tsU64Fields(t) : u64InRange(v)
  THEN Ok(concatBytes(tsChunks(t)))
  ELSE Throw

(***************************************************************************)
(* Decimal and hexadecimal strings                                          *)
(***************************************************************************)
IsDigit(c) == c >= 48 /\ c <= 57

RECURSIVE UlongToString(_)
\* ulong.ToString(): the decimal digits, most significant first
UlongToString(n) ==
  IF n < 10 THEN <<48 + n>> ELSE UlongToString(n \div 10) \o <<48 + (n % 10)>>

RECURSIVE ParseDigits(_, _)
ParseDigits(s, acc) ==
  IF s = <<>> THEN acc ELSE ParseDigits(Tail(s), acc * 10 + (Head(s) - 48))

\* ulong.Parse accepts a non-empty string of decimal digits
UlongParses(s) == s # <<>> /\ \A i \in 1..Len(s) : IsDigit(s[i])

\* ulong.Parse: the value of the digits
UlongParse(s) == ParseDigits(s, 0)

\* "x2" / "%02x": one lowercase hexadecimal digit
HexChar(d) == IF d < 10 THEN 48 + d ELSE 87 + d

RECURSIVE BytesToHex(_)
\* BytesToHex / bytesToHex: two lowercase hexadecimal digits per byte
BytesToHex(b) ==
  IF b = <<>> THEN <<>>
  ELSE <<HexChar(Head(b) \div 16), HexChar(Head(b) % 16)>> \o BytesToHex(Tail(b))

IsHexChar(c) ==
  \/ (c >= 48 /\ c <= 57)
  \/ (c >= 97 /\ c <= 102)
  \/ (c >= 65 /\ c <= 70)

\* FParse::HexDigit: the digit's value, and 0 for any other character
HexDigit(c) ==
  IF c >= 48 /\ c <= 57 THEN c - 48
  ELSE IF c >= 97 /\ c <= 102 THEN c + 10 - 97
  ELSE IF c >= 65 /\ c <= 70 THEN c + 10 - 65
  ELSE 0

\* TransactionSigning.HexToBytes (Unity): throws on odd length and, in
\* Convert.ToByte, on a character that is no hexadecimal digit
UnityHexToBytes(hex) ==
  IF Len(hex) % 2 # 0 \/ \E i \in 1..Len(hex) : ~IsHexChar(hex[i])
  THEN Throw
  ELSE Ok([i \in 1..(Len(hex) \div 2) |->
             HexDigit(hex[2 * i - 1]) * 16 + HexDigit(hex[2 * i])])

(***************************************************************************)
(* Unity SDK: transactions and canonical payload                            *)
(***************************************************************************)
\* the numeric value of the C# enum AssetAction
UnityAssetAction(action) ==
  CASE action = "Create" -> 0
    [] action = "Update" -> 1
    [] action = "Condense" -> 2
    [] action = "Evaporate" -> 3
    [] action = "Merge" -> 4
    [] action = "Split" -> 5

\* the numeric value of the C# enum DensityLevel
UnityDensityLevel(density) ==
  CASE density = "Ethereal" -> 0
    [] density = "Light" -> 1
    [] density = "Dense" -> 2
    [] density = "Core" -> 3

\* U64LE((ulong)v) of a C# int: the cast sign-extends, as floored division does
U64LE(value) == u64leLoop(value, 0)

\* AppendChainFields (Unity): chain_id then valid_until_height, when they have a value
AppendChainFields(parts, chainId, validUntilHeight) ==
  parts
    \o (IF chainId # None THEN <<U64LE(chainId[1])>> ELSE <<>>)
    \o (IF validUntilHeight # None THEN <<U64LE(validUntilHeight[1])>> ELSE <<>>)

\* the strings the Unity encoder hands to ulong.Parse
unityParsed(t) ==
  CASE t.type = "MistbornAsset" -> {t.fee}
    [] OTHER -> {t.amount, t.fee}

\* the Merge part of the MistbornAsset payload
UnityMergePart(t) ==
  IF t.action = "Merge" /\ "_other_asset_id" \in DOMAIN t.data.metadata
  THEN LET otherBytes == UnityHexToBytes(t.data.metadata["_other_asset_id"])
       IN IF ~otherBytes.ok THEN Throw
          ELSE IF Len(otherBytes.bytes) = 32 THEN Ok(<<otherBytes.bytes>>)
          ELSE Ok(<<>>)
  ELSE Ok(<<>>)

\* the Split part of the MistbornAsset payload
UnitySplitPart(t) ==
  IF t.action = "Split" /\ "_components" \in DOMAIN t.data.metadata
  THEN <<Utf8(t.data.metadata["_components"])>>
  ELSE <<>>

UnityParts(t) ==
  CASE t.type = "Transfer" ->
         AppendChainFields(
           <<Utf8(StrTransfer), t.from, t.to, U64LE(UlongParse(t.amount)),
             U64LE(UlongParse(t.fee)), U64LE(t.nonce)>>,
           t.chain_id, t.valid_until_height)
    [] t.type = "Stake" ->
         AppendChainFields(
           <<Utf8(StrStake), t.from, t.validator, U64LE(UlongParse(t.amount)),
             U64LE(UlongParse(t.fee)), U64LE(t.nonce)>>,
           t.chain_id, t.valid_until_height)
    [] t.type = "MistbornAsset" ->
         AppendChainFields(
           <<Utf8(StrMistbornAsset), t.from, <<UnityAssetAction(t.action)>>,
             t.asset_id, t.data.owner, <<UnityDensityLevel(t.data.density)>>>>
             \o UnityMergePart(t).bytes
             \o UnitySplitPart(t)
             \o <<U64LE(UlongParse(t.fee)), U64LE(t.nonce)>>,
           t.chain_id, t.valid_until_height)

\* TransactionSigning.GetTransactionDataForSigning (Unity), its three overloads
GetTransactionDataForSigning(t) ==
  IF \E s \in unityParsed(t) : ~UlongParses(s) THEN Throw
  ELSE IF t.type = "MistbornAsset" /\ ~UnityMergePart(t).ok THEN Throw
  ELSE Ok(concatBytes(UnityParts(t)))

(***************************************************************************)
(* Unreal plugin: canonical payload                                         *)
(***************************************************************************)
\* the numeric value of EAssetAction (uint8)
EAssetAction(action) ==
  CASE action = "Create" -> 0
    [] action = "Update" -> 1
    [] action = "Condense" -> 2
    [] action = "Evaporate" -> 3
    [] action = "Merge" -> 4
    [] action = "Split" -> 5

\* the numeric value of EDensityLevel (uint8)
EDensityLevel(density) ==
  CASE density = "Ethereal" -> 0
    [] density = "Light" -> 1
    [] density = "Dense" -> 2
    [] density = "Core" -> 3

\* every target platform of the engine stores integers least significant byte first
PlatformLittleEndian == TRUE

RECURSIVE Reverse(_)
Reverse(s) == IF s = <<>> THEN <<>> ELSE Reverse(Tail(s)) \o <<Head(s)>>

\* Data.Append(reinterpret_cast<uint8*>(&V), sizeof(uint64)): the 8 bytes of the
\* integer in the host's byte order
NativeU64(v) == IF PlatformLittleEndian THEN u64le(v) ELSE Reverse(u64le(v))

\* a narrow string literal's bytes read as 16-bit TCHARs (two bytes per unit,
\* low byte first); the units that lie wholly inside the literal and its NUL
ReinterpretAsTCHAR(lit) ==
  LET mem == lit \o <<0>>
  IN [k \in 1..(Len(mem) \div 2) |-> mem[2 * k - 1] + 256 * mem[2 * k]]

\* TCHAR_TO_UTF8 applied to a narrow string literal.  The macro casts its
\* argument to const TCHAR*, so a char literal is outside its contract: the
\* outcomes are the literal's own bytes ("narrow") or the UTF-8 form of the
\* literal's memory read as 16-bit units ("wide").
LiteralConversions == {"narrow", "wide"}

TcharToUtf8Literal(lit, conv) ==
  IF conv = "narrow" THEN lit ELSE Utf8(ReinterpretAsTCHAR(lit))

\* Data.Append(Addr.GetData(), 32) under "if (Addr.Num() >= 32)"
AppendFirst32(arr) == IF Len(arr) >= 32 THEN Take(arr, 32) ELSE <<>>

\* FTransactionSigning::AppendChainFields
UnrealAppendChainFields(Payload, ChainId, ValidUntilHeight) ==
  Payload
    \o (IF ChainId # None THEN NativeU64(ChainId[1]) ELSE <<>>)
    \o (IF ValidUntilHeight # None THEN NativeU64(ValidUntilHeight[1]) ELSE <<>>)

\* FTransactionSigning::BuildTransferPayload
BuildTransferPayload(conv, FromAddress, ToAddress, Amount, Fee, Nonce, ChainId, ValidUntilHeight) ==
  UnrealAppendChainFields(
    Take(TcharToUtf8Literal(StrTransfer, conv), 8)
      \o AppendFirst32(FromAddress)
      \o AppendFirst32(ToAddress)
      \o NativeU64(Amount)
      \o NativeU64(Fee)
      \o NativeU64(Nonce),
    ChainId, ValidUntilHeight)

\* the Merge branch: the first 64 characters decoded when there are at least 64
UnrealMergePart(Action, Metadata) ==
  IF Action = "Merge" /\ "_other_asset_id" \in DOMAIN Metadata
     /\ Len(Metadata["_other_asset_id"]) >= 64
  THEN LET OtherId == Metadata["_other_asset_id"]
       IN [i \in 1..32 |->
             (HexDigit(OtherId[2 * i - 1]) * 16 + HexDigit(OtherId[2 * i])) % 256]
  ELSE <<>>

\* the Split branch: Components->Len() bytes of the string's UTF-8 form
UnrealSplitPart(Action, Metadata) ==
  IF Action = "Split" /\ "_components" \in DOMAIN Metadata
  THEN Take(Utf8(Metadata["_components"]), Len(Metadata["_components"]))
  ELSE <<>>

\* FTransactionSigning::BuildMistbornAssetPayload
BuildMistbornAssetPayload(conv, FromAddress, Action, AssetId, DataOwner, Density, Fee, Nonce, MetadataMergeSplit, ChainId, ValidUntilHeight) ==
  UnrealAppendChainFields(
    Take(TcharToUtf8Literal(StrMistbornAsset, conv), 13)
      \o AppendFirst32(FromAddress)
      \o <<EAssetAction(Action)>>
      \o AppendFirst32(AssetId)
      \o AppendFirst32(DataOwner)
      \o <<EDensityLevel(Density)>>
      \o UnrealMergePart(Action, MetadataMergeSplit)
      \o UnrealSplitPart(Action, MetadataMergeSplit)
      \o NativeU64(Fee)
      \o NativeU64(Nonce),
    ChainId, ValidUntilHeight)

(***************************************************************************)
(* Hashing, key pairs, signing                                              *)
(***************************************************************************)
RECURSIVE SumBytes(_, _, _)
\* the sum of m[lo..hi], by halving the range
SumBytes(m, lo, hi) ==
  IF lo > hi THEN 0
  ELSE IF lo = hi THEN m[lo]
  ELSE LET mid == (lo + hi) \div 2
       IN (SumBytes(m, lo, mid) + SumBytes(m, mid + 1, hi)) % 65536

RECURSIVE WeightedSum(_, _, _)
\* the sum of j * m[j] over lo..hi, by halving the range
WeightedSum(m, lo, hi) ==
  IF lo > hi THEN 0
  ELSE IF lo = hi THEN (lo * m[lo]) % 65536
  ELSE LET mid == (lo + hi) \div 2
       IN (WeightedSum(m, lo, mid) + WeightedSum(m, mid + 1, hi)) % 65536

\* a stand-in for a 32-byte digest: deterministic, and dependent on every byte
\* of its input and on the input's length
Digest(m, salt) ==
  LET s1 == SumBytes(m, 1, Len(m))
      s2 == WeightedSum(m, 1, Len(m))
  IN [i \in 1..32 |-> (s1 + i * s2 + 7 * Len(m) + (i * i + 1) * salt) % 256]

\* sha256 (utils): createHash('sha256') of the data
sha256(data) == Digest(data, 3)

\* ed25519.getPublicKey / Ed25519.PublicKeyFromSeed
EdPublicKey(privateKey) == Digest(privateKey, 5)

\* ed25519.sign / Ed25519.Sign: a 64-byte signature, deterministic in message and key
EdSign(message, privateKey) ==
  Digest(privateKey \o message, 11) \o Digest(message \o privateKey, 13)

\* the private keys of the model
PrivateKeys == {bytes32(k) : k \in 1..NumKeys}

\* a null reference where a byte array is expected: the one value of the model
\* that is not a sequence of bytes
null == <<-1>>

\* ed25519.verify / Ed25519.Verify: throws on a null or malformed argument, else
\* tells whether the signature is the one the key's owner makes for the message
EdVerify(signature, message, publicKey) ==
  IF \/ signature = null \/ message = null \/ publicKey = null
     \/ Len(signature) # 64 \/ Len(publicKey) # 32 THEN Throw
  ELSE [ok |-> TRUE,
        bytes |-> <<>>,
        valid |-> \E k \in PrivateKeys :
                    EdPublicKey(k) = publicKey /\ EdSign(message, k) = signature]

\* new KeyPair(privateKey, publicKey), as generate and fromPrivateKey build it
KeyPair(privateKey) ==
  [privateKey |-> privateKey, publicKey |-> EdPublicKey(privateKey)]

\* KeyPair.getAddress of the crypto module's first version: sha256 of the key
getAddressSha256(kp) == sha256(kp.publicKey)

\* KeyPair.getAddress of the crypto module's second version: the key itself
getAddress(kp) == kp.publicKey

\* new Address(bytes) (Unity): throws unless bytes has 32 elements
Address(bytes) == IF Len(bytes) # 32 THEN Throw ELSE Ok(bytes)

\* KeyPair.GetAddress (Unity)
GetAddress(kp) == Address(kp.publicKey)

\* KeyPair.sign (TypeScript)
KeyPairSign(kp, message) == EdSign(message, kp.privateKey)

\* KeyPair.verify (TypeScript): try { ed25519.verify } catch { false }
verify(message, signature, publicKey) ==
  LET r == EdVerify(signature, message, publicKey)
  IN IF r.ok THEN r.valid ELSE FALSE

signTransactionHashed(transaction, kp) ==
  LET message == getTransactionDataForSigning(transaction)
  IN IF message.ok THEN Ok(KeyPairSign(kp, sha256(message.bytes))) ELSE Throw

\* signTransaction: sign the canonical payload; a throwing encoder propagates
signTransaction(transaction, kp) ==
  LET message == getTransactionDataForSigning(transaction)
  IN IF message.ok THEN Ok(KeyPairSign(kp, message.bytes)) ELSE Throw

\* TransactionBuilder.sign: a copy of the transaction with the signature set
sign(transaction, kp) ==
  LET signature == signTransaction(transaction, kp)
  IN IF ~signature.ok THEN Throw
     ELSE IF transaction.type \in {"Transfer", "Stake", "MistbornAsset", "ContractCall"}
     THEN [ok |-> TRUE, bytes |-> <<>>,
           tx |-> [transaction EXCEPT !.signature = signature.bytes]]
     ELSE [ok |-> TRUE, bytes |-> <<>>, tx |-> transaction]

(***************************************************************************)
(* Builders and the transactions the model encodes                          *)
(***************************************************************************)
\* TransactionBuilder.createTransfer (chain fields: CreateTransfer of Unity)
createTransfer(from, to, amount, fee, nonce, chainId, validUntilHeight) ==
  [type |-> "Transfer", from |-> from, to |-> to, amount |-> amount,
   fee |-> fee, nonce |-> nonce, chain_id |-> chainId,
   valid_until_height |-> validUntilHeight, signature |-> <<>>]

\* TransactionBuilder.createStake (chain fields: CreateStake of Unity)
createStake(from, validator, amount, fee, nonce, chainId, validUntilHeight) ==
  [type |-> "Stake", from |-> from, validator |-> validator, amount |-> amount,
   fee |-> fee, nonce |-> nonce, chain_id |-> chainId,
   valid_until_height |-> validUntilHeight, signature |-> <<>>]

\* a ContractCall transaction object (ContractCallTransaction; no builder exists)
ContractCallTransaction(from, contract, method, args, gasLimit, fee, nonce) ==
  [type |-> "ContractCall", from |-> from, contract |-> contract,
   method |-> method, args |-> args, gas_limit |-> gasLimit, fee |-> fee,
   nonce |-> nonce, chain_id |-> None, valid_until_height |-> None,
   signature |-> <<>>]

\* MistbornAsset.create...Transaction / CreateAsset ... SplitAsset: from is the owner
MistbornAssetTransaction(action, assetId, owner, density, metadata, fee, nonce, chainId, validUntilHeight) ==
  [type |-> "MistbornAsset", from |-> owner, action |-> action,
   asset_id |-> assetId,
   data |-> [density |-> density, metadata |-> metadata, attributes |-> <<>>,
             owner |-> owner],
   fee |-> fee, nonce |-> nonce, chain_id |-> chainId,
   valid_until_height |-> validUntilHeight, signature |-> <<>>]

\* the same field values as a Unity transaction object: amounts as decimal strings
UnityTransaction(t) ==
  CASE t.type = "MistbornAsset" -> [t EXCEPT !.fee = UlongToString(t.fee)]
    [] OTHER -> [t EXCEPT !.amount = UlongToString(t.amount),
                          !.fee = UlongToString(t.fee)]

\* the same field values as arguments of the Unreal payload functions
UnrealPayload(t, conv) ==
  CASE t.type = "Transfer" ->
         BuildTransferPayload(conv, t.from, t.to, t.amount, t.fee, t.nonce,
                              t.chain_id, t.valid_until_height)
    [] t.type = "MistbornAsset" ->
         BuildMistbornAssetPayload(conv, t.from, t.action, t.asset_id,
                                   t.data.owner, t.data.density, t.fee, t.nonce,
                                   t.data.metadata, t.chain_id,
                                   t.valid_until_height)

\* addresses: the public keys of the model's key pairs
Addresses == {EdPublicKey(k) : k \in PrivateKeys}

\* the key pair whose public key is the address
KeyPairOf(addr) == KeyPair(CHOOSE k \in PrivateKeys : EdPublicKey(k) = addr)

\* input values
ChainIdValue == 7
HeightValue == 300
AmountValue == 1000
FeeValue == 10
GasLimitValue == 100000

\* chain binding: unset, or both fields set
ChainOptions == {<<None, None>>, <<Some(ChainIdValue), Some(HeightValue)>>}

\* every way of setting at least one chain-binding field
ChainSettings ==
  {<<Some(ChainIdValue), None>>, <<None, Some(HeightValue)>>,
   <<Some(ChainIdValue), Some(HeightValue)>>}

\* 'x' and 'tr'
Methods == {<<120>>, <<116, 114>>}

ArgsValues == {<<>>, <<1, 0>>}

\* a valid other-asset id (64 hex characters), a short one
OtherIdHex == BytesToHex(bytes32(99))
ShortIdHex == BytesToHex(<<171, 205>>)

\* 'id1,id2' and a component string with a non-ASCII character (e-acute)
ComponentsAscii == <<105, 100, 49, 44, 105, 100, 50>>
ComponentsAccent == <<233, 49, 44, 50>>

\* metadata without entries
NoMetadata == [k \in {} |-> <<>>]

MetadataFor(action) ==
  CASE action = "Merge" ->
         {NoMetadata, [k \in {"_other_asset_id"} |-> OtherIdHex]}
    [] action = "Split" ->
         {NoMetadata, [k \in {"_components"} |-> ComponentsAscii]}
    [] OTHER -> {NoMetadata}

\* density is Ethereal for Merge, Split and Update ("updated by backend")
DensityFor(action) ==
  IF action \in {"Merge", "Split", "Update"} THEN {"Ethereal"} ELSE DensityLevel

InputTxs ==
  {createTransfer(a, bytes32(2), AmountValue, FeeValue, 0, c[1], c[2]) :
     a \in Addresses, c \in ChainOptions}
  \cup
  {createStake(a, bytes32(2), AmountValue, FeeValue, 0, c[1], c[2]) :
     a \in Addresses, c \in ChainOptions}
  \cup
  {ContractCallTransaction(a, bytes32(2), m, g, GasLimitValue, FeeValue, 0) :
     a \in Addresses, m \in Methods, g \in ArgsValues}
  \cup
  UNION {
    {MistbornAssetTransaction(act, bytes32(10), EdPublicKey(bytes32(1)), d, md,
                              FeeValue, 0, c[1], c[2]) :
       d \in DensityFor(act), md \in MetadataFor(act), c \in ChainOptions} :
    act \in AssetAction}

(***************************************************************************)
(* Integers beyond the checker's range: bigint (TypeScript) and ulong (C#)  *)
(* values of the economy and of decimal wire strings are numerals in base   *)
(* 2^15, least significant digit first, without leading zero digits.        *)
(***************************************************************************)
\* the base of the numerals: a product of two digits stays in the checker's range
Base == 2^15

RECURSIVE Norm(_)
\* drop the most significant zero digits
Norm(a) ==
  IF a = <<>> THEN <<>>
  ELSE IF a[Len(a)] = 0 THEN Norm(SubSeq(a, 1, Len(a) - 1)) ELSE a

RECURSIVE BigOf(_)
\* the numeral of a small natural (a literal such as 10000n or 10000u)
BigOf(n) == IF n = 0 THEN <<>> ELSE <<n % Base>> \o BigOf(n \div Base)

Zero == <<>>

RECURSIVE AddCarry(_, _, _)
AddCarry(a, b, c) ==
  IF a = <<>> /\ b = <<>> THEN (IF c = 0 THEN <<>> ELSE <<c>>)
  ELSE LET x == (IF a = <<>> THEN 0 ELSE Head(a))
                + (IF b = <<>> THEN 0 ELSE Head(b)) + c
       IN <<x % Base>> \o AddCarry(IF a = <<>> THEN <<>> ELSE Tail(a),
                                  IF b = <<>> THEN <<>> ELSE Tail(b),
                                  x \div Base)

\* a + b
BigAdd(a, b) == AddCarry(a, b, 0)

RECURSIVE LessFrom(_, _, _)
\* a < b for numerals of equal length, decided from digit i downwards
LessFrom(a, b, i) ==
  IF i = 0 THEN FALSE
  ELSE IF a[i] # b[i] THEN a[i] < b[i] ELSE LessFrom(a, b, i - 1)

\* a < b
BigLess(a, b) ==
  IF Len(a) # Len(b) THEN Len(a) < Len(b) ELSE LessFrom(a, b, Len(a))

BigLeq(a, b) == ~BigLess(b, a)

RECURSIVE SubBorrow(_, _, _)
SubBorrow(a, b, c) ==
  IF a = <<>> THEN <<>>
  ELSE LET x == Head(a) - (IF b = <<>> THEN 0 ELSE Head(b)) - c
       IN <<x % Base>> \o SubBorrow(Tail(a), IF b = <<>> THEN <<>> ELSE Tail(b),
                                   IF x < 0 THEN 1 ELSE 0)

\* a - b, for b <= a
BigSub(a, b) == Norm(SubBorrow(a, b, 0))

RECURSIVE MulDigit(_, _, _)
\* a * d + c for a digit d
MulDigit(a, d, c) ==
  IF a = <<>> THEN (IF c = 0 THEN <<>> ELSE <<c>>)
  ELSE LET x == Head(a) * d + c
       IN <<x % Base>> \o MulDigit(Tail(a), d, x \div Base)

\* a * Base
ShiftDigit(a) == IF a = <<>> THEN <<>> ELSE <<0>> \o a

RECURSIVE BigMul(_, _)
\* a * b
BigMul(a, b) ==
  IF b = <<>> THEN <<>>
  ELSE BigAdd(Norm(MulDigit(a, Head(b), 0)), ShiftDigit(BigMul(a, Tail(b))))

\* q * b <= r
Fits(q, b, r) == BigLeq(Norm(MulDigit(b, q, 0)), r)

\* the quotient of the two top digits of rs by the top digit of bs, at most
\* Base - 1; bs has n digits
TopQuotient(rs, bs, n) ==
  LET top == (IF Len(rs) > n THEN rs[n + 1] * Base ELSE 0) + rs[n]
  IN IF top \div bs[n] < Base THEN top \div bs[n] ELSE Base - 1

\* the largest q in est - 2 .. est with q * b <= r
LargestFit(est, b, r) ==
  CHOOSE q \in (est - 2)..est :
    q >= 0 /\ Fits(q, b, r) /\ \A p \in (q + 1)..est : ~Fits(p, b, r)

\* what makes the top digit of b at least Base / 2
Scale(b) == Base \div (b[Len(b)] + 1)

\* the digit q with q * b <= r < (q + 1) * b, for b <= r < b * Base: with both
\* scaled so that the top digit of b is at least Base / 2, the quotient of the
\* two top digits of r by the top digit of b is q, q + 1 or q + 2
QuotientDigit(r, b) ==
  LargestFit(TopQuotient(MulDigit(r, Scale(b), 0), MulDigit(b, Scale(b), 0), Len(b)),
             b, r)

\* the quotient digit q of cur by b, and what remains
WithDigit(cur, b, q) ==
  [quot |-> <<q>>, rem |-> BigSub(cur, Norm(MulDigit(b, q, 0)))]

\* long division by b, one digit: cur is the remainder of the digits above
\* followed by the next digit below them
DivDigit(cur, b) ==
  IF BigLess(cur, b) THEN [quot |-> <<0>>, rem |-> cur]
  ELSE WithDigit(cur, b, QuotientDigit(cur, b))

RECURSIVE DivRange(_, _, _, _, _)
\* long division of the digits a[lo..hi] after the remainder rem of the digits
\* above them: the upper half, then the lower half; the quotient digits come
\* most significant first
DivRange(a, b, lo, hi, rem) ==
  IF lo = hi
  THEN DivDigit(IF rem = <<>> /\ a[lo] = 0 THEN <<>> ELSE <<a[lo]>> \o rem, b)
  ELSE LET mid == (lo + hi) \div 2
           upper == DivRange(a, b, mid + 1, hi, rem)
           lower == DivRange(a, b, lo, mid, upper.rem)
       IN [quot |-> upper.quot \o lower.quot, rem |-> lower.rem]

\* the quotient digits least significant first
LowFirst(d) ==
  [quot |-> [i \in 1..Len(d.quot) |-> d.quot[Len(d.quot) + 1 - i]], rem |-> d.rem]

\* long division of a by b: quotient (least significant digit first, zero
\* digits not dropped) and remainder
DivFrom(a, b) ==
  IF BigLess(a, b) THEN [quot |-> <<>>, rem |-> a]
  ELSE LowFirst(DivRange(a, b, 1, Len(a), <<>>))

\* floor(a / b), for b # 0
BigDiv(a, b) == Norm(DivFrom(a, b).quot)

\* a mod b, for b # 0
BigMod(a, b) == DivFrom(a, b).rem

\* 2^64 - 1 and 2^64
MaxU64 == <<Base - 1, Base - 1, Base - 1, Base - 1, 15>>
TwoTo64 == <<0, 0, 0, 0, 16>>

\* the ulong a C# expression yields in an unchecked context: the low 64 bits
Wrap64(a) ==
  IF Len(a) < 5 THEN a ELSE Norm(SubSeq(a, 1, 4) \o <<a[5] % 16>>)

\* ulong arithmetic
UlongMul(a, b) == Wrap64(BigMul(a, b))
UlongAdd(a, b) == Wrap64(BigAdd(a, b))
UlongSub(a, b) == IF BigLess(a, b) THEN BigSub(BigAdd(a, TwoTo64), b) ELSE BigSub(a, b)

(***************************************************************************)
(* Numeric wire strings: bigint and ulong to and from text                  *)
(***************************************************************************)
\* outcome of a call: a returned value or a thrown error
Returns(v) == [ok |-> TRUE, value |-> v, negative |-> FALSE]
Throws(e) == [ok |-> FALSE, error |-> e]

TenThousand == BigOf(10000)

\* the four decimal digits of a natural below 10000
FourDigits(n) ==
  <<48 + (n \div 1000), 48 + ((n \div 100) % 10), 48 + ((n \div 10) % 10),
    48 + (n % 10)>>

RECURSIVE DecimalDigits(_)
\* the digits of the quotient d.quot, then the four digits of the remainder
DecimalStep(d) ==
  DecimalDigits(Norm(d.quot)) \o FourDigits(IF d.rem = <<>> THEN 0 ELSE d.rem[1])

\* the decimal digits of a numeral, most significant first, four at a time
\* (so possibly after up to three zeros)
DecimalDigits(a) ==
  IF a = <<>> THEN <<>> ELSE DecimalStep(DivFrom(a, TenThousand))

RECURSIVE DropZeros(_)
DropZeros(s) == IF s # <<>> /\ Head(s) = 48 THEN DropZeros(Tail(s)) ELSE s

\* bigint.toString() / ulong.ToString() of a value that is not negative
ToDecimalString(a) == IF a = <<>> THEN <<48>> ELSE DropZeros(DecimalDigits(a))

\* white space that the parsers skip
IsSpace(c) == c \in {9, 10, 11, 12, 13, 32}

RECURSIVE TrimStart(_)
TrimStart(s) ==
  IF s # <<>> /\ IsSpace(Head(s)) THEN TrimStart(Tail(s)) ELSE s

RECURSIVE TrimEnd(_)
TrimEnd(s) ==
  IF s # <<>> /\ IsSpace(s[Len(s)]) THEN TrimEnd(SubSeq(s, 1, Len(s) - 1)) ELSE s

Trim(s) == TrimEnd(TrimStart(s))

\* the value of a digit character in radix 2 .. 16, or 99 for any other character
DigitValue(c) ==
  IF c >= 48 /\ c <= 57 THEN c - 48
  ELSE IF c >= 97 /\ c <= 102 THEN c - 87
  ELSE IF c >= 65 /\ c <= 70 THEN c - 55
  ELSE 99

\* one digit or more, all of the radix
AllDigits(s, radix) ==
  s # <<>> /\ \A i \in 1..Len(s) : DigitValue(s[i]) < radix

RECURSIVE ChunkValue(_, _, _, _)
\* the number the digits s[lo..hi] denote, for at most three digits
ChunkValue(s, radix, lo, hi) ==
  IF hi < lo THEN 0
  ELSE ChunkValue(s, radix, lo, hi - 1) * radix + DigitValue(s[hi])

RECURSIVE RadixValue(_, _, _)
\* the number the first i digits of s denote, three digits at a time
RadixValue(s, radix, i) ==
  IF i <= 0 THEN <<>>
  ELSE LET lo == IF i > 3 THEN i - 2 ELSE 1
       IN Norm(MulDigit(RadixValue(s, radix, lo - 1), radix ^ (i - lo + 1),
                        ChunkValue(s, radix, lo, i)))

\* the radix a prefix 0x, 0o or 0b announces, 0 when there is no such prefix
PrefixRadix(t) ==
  IF Len(t) < 2 \/ t[1] # 48 THEN 0
  ELSE IF t[2] \in {120, 88} THEN 16
  ELSE IF t[2] \in {111, 79} THEN 8
  ELSE IF t[2] \in {98, 66} THEN 2
  ELSE 0

\* BigInt(string): white space trimmed, the empty string is 0n, a sign before
\* decimal digits, a radix prefix without sign; anything else is a SyntaxError
BigInt(value) ==
  LET t == Trim(value)
      hasSign == t # <<>> /\ t[1] \in {43, 45}
      digits == IF hasSign THEN Tail(t) ELSE t
      radix == PrefixRadix(t)
  IN IF t = <<>> THEN Returns(Zero)
     ELSE IF radix # 0
       THEN IF AllDigits(SubSeq(t, 3, Len(t)), radix)
            THEN Returns(RadixValue(SubSeq(t, 3, Len(t)), radix, Len(t) - 2))
            ELSE Throws("SyntaxError")
     ELSE IF AllDigits(digits, 10)
       THEN LET v == RadixValue(digits, 10, Len(digits))
            IN [ok |-> TRUE, value |-> v,
                negative |-> t[1] = 45 /\ v # Zero]
     ELSE Throws("SyntaxError")

\* stringToBigint
stringToBigint(value) == BigInt(value)

\* ulong.TryParse(s, out v): white space and a sign are allowed, the value
\* must lie in 0 .. 2^64 - 1
UlongTryParse(s) ==
  LET t == Trim(s)
      hasSign == t # <<>> /\ t[1] \in {43, 45}
      digits == IF hasSign THEN Tail(t) ELSE t
  IN IF ~AllDigits(digits, 10) THEN Throws("FormatException")
     ELSE LET v == RadixValue(digits, 10, Len(digits))
          IN IF BigLess(MaxU64, v) \/ (t[1] = 45 /\ v # Zero)
             THEN Throws("OverflowException")
             ELSE Returns(v)

\* FogEconomy.ParseReserve
ParseReserve(s) ==
  IF s = <<>> THEN Returns(Zero)
  ELSE IF UlongTryParse(s).ok THEN UlongTryParse(s)
  ELSE Throws("FormatException")

\* Utils.StringToUlong: ulong.Parse
StringToUlong(value) == UlongTryParse(value)

(***************************************************************************)
(* Fog economy: swap quote and liquidity shares                             *)
(***************************************************************************)
\* bigint division: a zero divisor is a RangeError
BigIntDiv(a, b) ==
  IF b = Zero THEN Throws("RangeError") ELSE Returns(BigDiv(a, b))

\* const fee = (outputAmount * BigInt(pool.fee_rate)) / BigInt(10000);
\* return outputAmount - fee
tsAfterFee(outputAmount, fee_rate) ==
  BigSub(outputAmount, BigDiv(BigMul(outputAmount, BigOf(fee_rate)), TenThousand))

\* the rest of calculateSwapAmount once k / newReserveIn is known
tsSwapOutput(newReserveOut, reserveOut, fee_rate) ==
  IF ~newReserveOut.ok THEN newReserveOut
  ELSE Returns(tsAfterFee(BigSub(reserveOut, newReserveOut.value), fee_rate))

\* one side of calculateSwapAmount: the input goes to the reserve reserveIn
tsSwapSide(k, reserveIn, reserveOut, inputAmount, fee_rate) ==
  tsSwapOutput(BigIntDiv(k, BigAdd(reserveIn, inputAmount)), reserveOut, fee_rate)

\* FogEconomy.calculateSwapAmount (TypeScript): pool fields are bigints
calculateSwapAmount(p, inputAmount, isAsset1Input) ==
  LET k == BigMul(p.reserve1, p.reserve2)
  IN IF isAsset1Input
     THEN tsSwapSide(k, p.reserve1, p.reserve2, inputAmount, p.fee_rate)
     ELSE tsSwapSide(k, p.reserve2, p.reserve1, inputAmount, p.fee_rate)

\* one turn of the loop of geometricMean:
\* while (y < x) { x = y; y = (x + product / x) / 2n }
tsNewtonStep(s) ==
  IF BigLess(s.y, s.x)
  THEN [s EXCEPT !.x = s.y,
                 !.y = BigDiv(BigAdd(s.y, BigDiv(s.product, s.y)), BigOf(2))]
  ELSE [s EXCEPT !.done = TRUE]

RECURSIVE tsNewton(_, _)
\* the loop of geometricMean, up to n turns: the first half of them, then the rest
tsNewton(s, n) ==
  IF s.done THEN s
  ELSE IF n = 1 THEN tsNewtonStep(s)
  ELSE LET half == tsNewton(s, n \div 2)
       IN IF half.done THEN half ELSE tsNewton(half, n - n \div 2)

\* the locals of geometricMean when its loop is entered: x = product and
\* y = (x + 1n) / 2n
tsNewtonStart(product) ==
  [product |-> product, x |-> product, done |-> FALSE,
   y |-> BigDiv(BigAdd(product, BigOf(1)), BigOf(2))]

\* FogEconomy.geometricMean (TypeScript); the loop ends within MaxNewtonTurns
\* turns for every product below 2^128
geometricMean(a, b) == tsNewton(tsNewtonStart(BigMul(a, b)), MaxNewtonTurns).x

\* return share1 < share2 ? share1 : share2, a failed division first
MinShare(share1, share2) ==
  IF ~share1.ok THEN share1
  ELSE IF ~share2.ok THEN share2
  ELSE IF BigLess(share1.value, share2.value) THEN share1 ELSE share2

\* FogEconomy.calculateLiquidityShares (TypeScript)
calculateLiquidityShares(p, reserve1Amount, reserve2Amount) ==
  IF p.total_liquidity = Zero
  THEN Returns(geometricMean(reserve1Amount, reserve2Amount))
  ELSE MinShare(BigIntDiv(BigMul(reserve1Amount, p.total_liquidity), p.reserve1),
                BigIntDiv(BigMul(reserve2Amount, p.total_liquidity), p.reserve2))

\* HazeClient.getLiquidityPool (TypeScript): the string fields become bigints
getLiquidityPool(data) ==
  LET reserve1 == BigInt(data.reserve1)
      reserve2 == BigInt(data.reserve2)
      total_liquidity == BigInt(data.total_liquidity)
  IN IF ~reserve1.ok THEN reserve1
     ELSE IF ~reserve2.ok THEN reserve2
     ELSE IF ~total_liquidity.ok THEN total_liquidity
     ELSE [ok |-> TRUE,
           value |-> [data EXCEPT !.reserve1 = reserve1.value,
                                  !.reserve2 = reserve2.value,
                                  !.total_liquidity = total_liquidity.value],
           negative |-> reserve1.negative \/ reserve2.negative
                          \/ total_liquidity.negative]

\* ulong division: a zero divisor is a DivideByZeroException
UlongDiv(a, b) ==
  IF b = Zero THEN Throws("DivideByZeroException") ELSE Returns(BigDiv(a, b))

\* ulong fee = (outputAmount * (uint)pool.fee_rate) / 10000u;
\* return outputAmount - fee
unityAfterFee(outputAmount, fee_rate) ==
  UlongSub(outputAmount, BigDiv(UlongMul(outputAmount, BigOf(fee_rate)), TenThousand))

\* the rest of ComputeSwapOutput once rIn + inputAmount is known
unitySwapOutput(k, newReserveIn, rOut, fee_rate) ==
  IF newReserveIn = Zero THEN Returns(Zero)
  ELSE Returns(unityAfterFee(UlongSub(rOut, BigDiv(k, newReserveIn)), fee_rate))

\* one side of ComputeSwapOutput: the input goes to the reserve rIn
unitySwapSide(k, rIn, rOut, inputAmount, fee_rate) ==
  unitySwapOutput(k, UlongAdd(rIn, inputAmount), rOut, fee_rate)

\* FogEconomy.ComputeSwapOutput (Unity): pool fields are decimal strings
ComputeSwapOutput(p, inputAmount, isAsset1Input) ==
  LET r1 == ParseReserve(p.reserve1)
      r2 == ParseReserve(p.reserve2)
  IN IF ~r1.ok THEN r1
     ELSE IF ~r2.ok THEN r2
     ELSE LET k == UlongMul(r1.value, r2.value)
          IN IF isAsset1Input
             THEN unitySwapSide(k, r1.value, r2.value, inputAmount, p.fee_rate)
             ELSE unitySwapSide(k, r2.value, r1.value, inputAmount, p.fee_rate)

\* one turn of the loop of GeometricMean:
\* while (y < x) { x = y; y = (x + product / x) / 2 }
unityNewtonStep(s) ==
  IF ~BigLess(s.y, s.x) THEN [s EXCEPT !.done = TRUE]
  ELSE IF s.y = Zero THEN [s EXCEPT !.done = TRUE, !.ok = FALSE]
  ELSE [s EXCEPT !.x = s.y,
                 !.y = BigDiv(UlongAdd(s.y, BigDiv(s.product, s.y)), BigOf(2))]

RECURSIVE unityNewton(_, _)
\* the loop of GeometricMean, up to n turns: the first half of them, then the rest
unityNewton(s, n) ==
  IF s.done THEN s
  ELSE IF n = 1 THEN unityNewtonStep(s)
  ELSE LET half == unityNewton(s, n \div 2)
       IN IF half.done THEN half ELSE unityNewton(half, n - n \div 2)

\* the locals of GeometricMean when its loop is entered: x = product and
\* y = (x + 1) / 2
unityNewtonStart(product) ==
  [product |-> product, x |-> product, done |-> FALSE, ok |-> TRUE,
   y |-> BigDiv(UlongAdd(product, BigOf(1)), BigOf(2))]

\* what GeometricMean returns for a product: 0 for 0, else what its loop
\* leaves in x
unityNewtonResult(product) ==
  IF product = Zero THEN Returns(Zero)
  ELSE LET end == unityNewton(unityNewtonStart(product), MaxNewtonTurns)
       IN IF ~end.ok THEN Throws("DivideByZeroException") ELSE Returns(end.x)

\* FogEconomy.GeometricMean (Unity): product / x with x = 0 is a
\* DivideByZeroException
GeometricMean(a, b) == unityNewtonResult(UlongMul(a, b))

\* FogEconomy.ComputeLiquidityShares (Unity)
ComputeLiquidityShares(p, reserve1Amount, reserve2Amount) ==
  LET totalLiq == ParseReserve(p.total_liquidity)
      r1 == ParseReserve(p.reserve1)
      r2 == ParseReserve(p.reserve2)
  IN IF ~totalLiq.ok THEN totalLiq
     ELSE IF totalLiq.value = Zero
       THEN GeometricMean(reserve1Amount, reserve2Amount)
     ELSE IF ~r1.ok THEN r1
     ELSE IF ~r2.ok THEN r2
     ELSE MinShare(UlongDiv(UlongMul(reserve1Amount, totalLiq.value), r1.value),
                   UlongDiv(UlongMul(reserve2Amount, totalLiq.value), r2.value))

(***************************************************************************)
(* State machine                                                            *)
(***************************************************************************)
SDKs == {"ts", "unity", "unreal"}

\* the variants each SDK has an encoder for
Supported(sdk) ==
  CASE sdk = "ts" -> {"Transfer", "Stake", "ContractCall", "MistbornAsset"}
    [] sdk = "unity" -> {"Transfer", "Stake", "MistbornAsset"}
    [] sdk = "unreal" -> {"Transfer", "MistbornAsset"}

NoPayloads == [s \in SDKs |-> Nil]

Init ==
  /\ tx \in InputTxs
  /\ base = Nil
  /\ changed = "none"
  /\ payload = NoPayloads
  /\ basePayload = NoPayloads
  /\ keyPair = KeyPairOf(tx.from)
  /\ signed = Nil
  /\ address = Nil
  /\ transport = Nil
  /\ pool = Nil /\ request = Nil /\ quote = Nil
  /\ wire = Nil /\ decoded = Nil
  /\ NoLifecycle /\ NoGuard /\ NoSubmit /\ NoLoad

\* nothing has been computed from tx yet
Fresh == base = Nil /\ payload = NoPayloads /\ signed = Nil

\* { ...tx, [field]: value }: a copy of tx that differs in one field
Replace(field, t) ==
  /\ base' = tx
  /\ changed' = field
  /\ tx' = t
  /\ UNCHANGED <<transport, economyVars, codecVars, payload, basePayload, keyPair, signed, address, clientVars>>

WithFrom ==
  /\ Fresh
  /\ \E a \in Addresses \ {tx.from} : Replace("from", [tx EXCEPT !.from = a])

WithFee ==
  /\ Fresh
  /\ \E d \in 1..MaxStep : Replace("fee", [tx EXCEPT !.fee = tx.fee + d])

WithNonce ==
  /\ Fresh
  /\ \E d \in 1..MaxStep : Replace("nonce", [tx EXCEPT !.nonce = tx.nonce + d])

WithChainFields ==
  /\ Fresh
  /\ tx.chain_id = None /\ tx.valid_until_height = None
  /\ \E c \in ChainSettings :
       Replace("chain", [tx EXCEPT !.chain_id = c[1], !.valid_until_height = c[2]])

\* two copies of tx with one chain-binding field each: base has the value as
\* its chain_id, tx the same value as its valid_until_height
WithOtherChainField ==
  /\ Fresh
  /\ tx.chain_id = None /\ tx.valid_until_height = None
  /\ \E v \in {ChainIdValue, HeightValue} :
       /\ base' = [tx EXCEPT !.chain_id = Some(v)]
       /\ changed' = "which chain field"
       /\ tx' = [tx EXCEPT !.valid_until_height = Some(v)]
  /\ UNCHANGED <<transport, economyVars, codecVars, payload, basePayload, keyPair, signed, address, clientVars>>

\* metadata with one more entry
WithEntry(md, key, value) ==
  [k \in DOMAIN md \cup {key} |-> IF k = key THEN value ELSE md[k]]

WithOtherAssetId ==
  /\ Fresh
  /\ tx.type = "MistbornAsset" /\ tx.action = "Merge"
  /\ "_other_asset_id" \notin DOMAIN tx.data.metadata
  /\ \E v \in {OtherIdHex, ShortIdHex} :
       Replace("_other_asset_id",
               [tx EXCEPT !.data.metadata = WithEntry(@, "_other_asset_id", v)])

WithComponents ==
  /\ Fresh
  /\ tx.type = "MistbornAsset" /\ tx.action = "Split"
  /\ "_components" \notin DOMAIN tx.data.metadata
  /\ \E v \in {ComponentsAscii, ComponentsAccent} :
       Replace("_components",
               [tx EXCEPT !.data.metadata = WithEntry(@, "_components", v)])

\* payloads of tx and, when there is one, of the transaction it was copied from
Encoded(sdk, ofTx, ofBase) ==
  /\ payload' = [payload EXCEPT ![sdk] = ofTx]
  /\ basePayload' = IF base = Nil THEN basePayload
                    ELSE [basePayload EXCEPT ![sdk] = ofBase]
  /\ UNCHANGED <<transport, economyVars, codecVars, tx, base, changed, keyPair, signed, address, clientVars>>

\* an SDK encodes tx once, and only a variant it has an encoder for
CanEncode(sdk) == payload[sdk] = Nil /\ tx.type \in Supported(sdk)

TsEncode ==
  /\ CanEncode("ts")
  /\ Encoded("ts", getTransactionDataForSigning(tx),
             IF base = Nil THEN Nil ELSE getTransactionDataForSigning(base))

UnityEncode ==
  /\ CanEncode("unity")
  /\ Encoded("unity", GetTransactionDataForSigning(UnityTransaction(tx)),
             IF base = Nil THEN Nil
             ELSE GetTransactionDataForSigning(UnityTransaction(base)))

UnrealEncode ==
  /\ CanEncode("unreal")
  /\ \E conv \in LiteralConversions :
       Encoded("unreal", Ok(UnrealPayload(tx, conv)),
               IF base = Nil THEN Nil ELSE Ok(UnrealPayload(base, conv)))

\* TransactionBuilder.sign(tx, keyPair)
TsSign ==
  /\ signed = Nil
  /\ signed' = sign(tx, keyPair)
  /\ UNCHANGED <<transport, economyVars, codecVars, tx, base, changed, payload, basePayload, keyPair, address, clientVars>>

TsGetAddress ==
  /\ address = Nil
  /\ address' = [sdk |-> "ts", value |-> Ok(getAddress(keyPair))]
  /\ UNCHANGED <<transport, economyVars, codecVars, tx, base, changed, payload, basePayload, keyPair, signed, clientVars>>

TsGetAddressSha256 ==
  /\ address = Nil
  /\ address' = [sdk |-> "ts-sha256", value |-> Ok(getAddressSha256(keyPair))]
  /\ UNCHANGED <<transport, economyVars, codecVars, tx, base, changed, payload, basePayload, keyPair, signed, clientVars>>

UnityGetAddress ==
  /\ address = Nil
  /\ address' = [sdk |-> "unity", value |-> GetAddress(keyPair)]
  /\ UNCHANGED <<transport, economyVars, codecVars, tx, base, changed, payload, basePayload, keyPair, signed, clientVars>>

Next ==
  \/ WithFrom
  \/ WithFee
  \/ WithNonce
  \/ WithChainFields
  \/ WithOtherChainField
  \/ WithOtherAssetId
  \/ WithComponents
  \/ TsEncode
  \/ UnityEncode
  \/ UnrealEncode
  \/ TsSign
  \/ TsGetAddress
  \/ TsGetAddressSha256
  \/ UnityGetAddress

Spec == Init /\ [][Next]_vars

(***************************************************************************)
(* State machine of the economy: a pool snapshot, one request, and the      *)
(* answer of the TypeScript and of the Unity SDK                            *)
(***************************************************************************)
TwoTo32 == BigMul(BigOf(65536), BigOf(65536))

\* reserves, total liquidity, fee rates (basis points) and amounts of the requests
ReserveValues == {Zero, BigOf(10000), BigOf(20000), TwoTo32, MaxU64}
LiquidityValues == {Zero, BigOf(14142)}
FeeRates == {0, 30}
Amounts == {Zero, BigOf(1), BigOf(1000), MaxU64}
DepositPairs ==
  {<<BigOf(10000), BigOf(20000)>>, <<BigOf(1000), BigOf(1000)>>,
   <<Zero, BigOf(5)>>, <<TwoTo32, TwoTo32>>, <<MaxU64, BigOf(1)>>,
   <<MaxU64, MaxU64>>}

Pools ==
  [reserve1 : ReserveValues, reserve2 : ReserveValues,
   total_liquidity : LiquidityValues, fee_rate : FeeRates]

Requests ==
  [op : {"swap"}, inputAmount : Amounts, isAsset1Input : BOOLEAN]
    \cup {[op |-> "shares", reserve1Amount |-> d[1], reserve2Amount |-> d[2]] :
            d \in DepositPairs}

\* the pool as the node's API sends it: 64-bit quantities as decimal strings
WirePool(p) ==
  [reserve1 |-> ToDecimalString(p.reserve1),
   reserve2 |-> ToDecimalString(p.reserve2),
   total_liquidity |-> ToDecimalString(p.total_liquidity),
   fee_rate |-> p.fee_rate]

EconomyInit ==
  /\ pool \in Pools
  /\ request \in Requests
  /\ quote = [s \in {"ts", "unity"} |-> Nil]
  /\ tx = Nil /\ base = Nil /\ changed = "none"
  /\ payload = Nil /\ basePayload = Nil /\ keyPair = Nil
  /\ signed = Nil /\ address = Nil /\ transport = Nil
  /\ wire = Nil /\ decoded = Nil
  /\ NoLifecycle /\ NoGuard /\ NoSubmit /\ NoLoad

\* an SDK answers the request once
Answer(sdk, answer) ==
  /\ quote' = [quote EXCEPT ![sdk] = answer]
  /\ UNCHANGED <<pool, request, txVars, codecVars, clientVars>>

\* the swap quote from the pool p that getLiquidityPool returned
tsSwapAnswer(p) ==
  IF ~p.ok THEN p
  ELSE calculateSwapAmount(p.value, request.inputAmount, request.isAsset1Input)

\* economy.getLiquidityPool(id), then economy.calculateSwapAmount(pool, ...)
TsSwap ==
  /\ request.op = "swap" /\ quote["ts"] = Nil
  /\ \E data \in {WirePool(pool)} :
       \E p \in {getLiquidityPool(data)} : Answer("ts", tsSwapAnswer(p))

\* the shares from the pool p that getLiquidityPool returned
tsSharesAnswer(p) ==
  IF ~p.ok THEN p
  ELSE calculateLiquidityShares(p.value, request.reserve1Amount,
                                request.reserve2Amount)

\* economy.getLiquidityPool(id), then economy.calculateLiquidityShares(pool, ...)
TsShares ==
  /\ request.op = "shares" /\ quote["ts"] = Nil
  /\ \E data \in {WirePool(pool)} :
       \E p \in {getLiquidityPool(data)} : Answer("ts", tsSharesAnswer(p))

\* FogEconomy.ComputeSwapOutput(pool, inputAmount, isAsset1Input)
UnitySwap ==
  /\ request.op = "swap" /\ quote["unity"] = Nil
  /\ \E data \in {WirePool(pool)} :
       Answer("unity", ComputeSwapOutput(data, request.inputAmount,
                                         request.isAsset1Input))

\* FogEconomy.ComputeLiquidityShares(pool, reserve1Amount, reserve2Amount)
UnityShares ==
  /\ request.op = "shares" /\ quote["unity"] = Nil
  /\ \E data \in {WirePool(pool)} :
       Answer("unity", ComputeLiquidityShares(data, request.reserve1Amount,
                                              request.reserve2Amount))

EconomyNext ==
  \/ TsSwap
  \/ TsShares
  \/ UnitySwap
  \/ UnityShares

EconomySpec == EconomyInit /\ [][EconomyNext]_vars

(***************************************************************************)
(* Wire values: hexadecimal strings to bytes, decimal strings to numbers    *)
(***************************************************************************)
RECURSIVE HexPairs(_, _)
\* Buffer.from(hex, 'hex'): pairs of digits from the left; decoding stops at
\* the first pair that is incomplete or holds a character that is no digit
HexPairs(hex, i) ==
  IF 2 * i > Len(hex) \/ ~IsHexChar(hex[2 * i - 1]) \/ ~IsHexChar(hex[2 * i])
  THEN <<>>
  ELSE <<HexDigit(hex[2 * i - 1]) * 16 + HexDigit(hex[2 * i])>>
         \o HexPairs(hex, i + 1)

\* hexToBytes: never throws
hexToBytes(hex) == Ok(HexPairs(hex, 1))

\* hexToHash / hexToAddress: null unless 32 bytes came out
hexToHash(hex) ==
  IF Len(hexToBytes(hex).bytes) # 32 THEN Throw ELSE hexToBytes(hex)

\* Utils.HexToBytes: the empty string is the empty array, an odd length is an
\* ArgumentException, a pair that is no number in base 16 a FormatException
UtilsHexToBytes(hex) ==
  IF hex = <<>> THEN Ok(<<>>)
  ELSE IF Len(hex) % 2 # 0 THEN Throw
  ELSE IF \E i \in 1..Len(hex) : ~IsHexChar(hex[i]) THEN Throw
  ELSE Ok([i \in 1..(Len(hex) \div 2) |->
             HexDigit(hex[2 * i - 1]) * 16 + HexDigit(hex[2 * i])])

\* FString::Replace(TEXT(" "), TEXT(""))
RemoveSpaces(s) == SelectSeq(s, LAMBDA c : c # 32)

\* FTransactionBuilder::HexToBytes: Len / 2 bytes; FParse::HexDigit is never
\* negative, so the early return of an empty array is never taken
TransactionBuilderHexToBytes(Hex) ==
  LET H == RemoveSpaces(Trim(Hex))
      A(i) == HexDigit(H[2 * i - 1])
      B(i) == HexDigit(H[2 * i])
  IN IF \E i \in 1..(Len(H) \div 2) : A(i) < 0 \/ B(i) < 0 THEN Ok(<<>>)
     ELSE Ok([i \in 1..(Len(H) \div 2) |-> (A(i) * 16 + B(i)) % 256])

(***************************************************************************)
(* State machine of the wire decoders: one string off the wire, and what    *)
(* each decoder makes of it                                                 *)
(***************************************************************************)
Hex64 == BytesToHex(bytes32(171))

\* well-formed, odd-length and non-hexadecimal strings ("z" is 122, "g" 103)
HexStrings ==
  {<<>>, <<48, 48, 102, 102>>, Hex64,
   <<97, 98, 99>>, Hex64 \o <<102>>,
   <<122, 122>>, <<49, 50, 103, 52>>, Hex64 \o <<122, 122>>}

\* "0", "1000", 2^64 - 1, and "", "-5", "abc", 2^64
NumberStrings ==
  {<<48>>, <<49, 48, 48, 48>>, ToDecimalString(MaxU64),
   <<>>, <<45, 53>>, <<97, 98, 99>>, ToDecimalString(TwoTo64)}

HexDecoders == {"hexToBytes", "hexToHash", "Utils.HexToBytes",
                "FTransactionBuilder::HexToBytes"}
NumberDecoders == {"stringToBigint", "getLiquidityPool", "ParseReserve",
                   "StringToUlong"}

CodecInit ==
  /\ wire \in [kind : {"hex"}, text : HexStrings]
                \cup [kind : {"number"}, text : NumberStrings]
  /\ decoded = [d \in HexDecoders \cup NumberDecoders |-> Nil]
  /\ tx = Nil /\ base = Nil /\ changed = "none"
  /\ payload = Nil /\ basePayload = Nil /\ keyPair = Nil
  /\ signed = Nil /\ address = Nil /\ transport = Nil
  /\ pool = Nil /\ request = Nil /\ quote = Nil
  /\ NoLifecycle /\ NoGuard /\ NoSubmit /\ NoLoad

\* a decoder is given the string once
Decode(decoder, kind, result) ==
  /\ wire.kind = kind /\ decoded[decoder] = Nil
  /\ decoded' = [decoded EXCEPT ![decoder] = result]
  /\ UNCHANGED <<wire, txVars, economyVars, clientVars>>

TsHexToBytes ==
  /\ wire.kind = "hex"
  /\ Decode("hexToBytes", "hex", hexToBytes(wire.text))

TsHexToHash ==
  /\ wire.kind = "hex"
  /\ Decode("hexToHash", "hex", hexToHash(wire.text))

UnityHexDecode ==
  /\ wire.kind = "hex"
  /\ Decode("Utils.HexToBytes", "hex", UtilsHexToBytes(wire.text))

UnrealHexDecode ==
  /\ wire.kind = "hex"
  /\ Decode("FTransactionBuilder::HexToBytes", "hex",
            TransactionBuilderHexToBytes(wire.text))

TsStringToBigint ==
  /\ wire.kind = "number"
  /\ Decode("stringToBigint", "number", stringToBigint(wire.text))

\* getLiquidityPool on a response whose reserve1 is the string
TsPoolReserve ==
  /\ wire.kind = "number"
  /\ LET p == getLiquidityPool([reserve1 |-> wire.text, reserve2 |-> <<48>>,
                                total_liquidity |-> <<48>>, fee_rate |-> 30])
     IN Decode("getLiquidityPool", "number",
               IF ~p.ok THEN p
               ELSE [ok |-> TRUE, value |-> p.value.reserve1,
                     negative |-> p.negative])

UnityParseReserve ==
  /\ wire.kind = "number"
  /\ Decode("ParseReserve", "number", ParseReserve(wire.text))

UnityStringToUlong ==
  /\ wire.kind = "number"
  /\ Decode("StringToUlong", "number", StringToUlong(wire.text))

CodecNext ==
  \/ TsHexToBytes
  \/ TsHexToHash
  \/ UnityHexDecode
  \/ UnrealHexDecode
  \/ TsStringToBigint
  \/ TsPoolReserve
  \/ UnityParseReserve
  \/ UnityStringToUlong

CodecSpec == CodecInit /\ [][CodecNext]_vars

(***************************************************************************)
(* Transport object: the JSON value a transaction is sent as.  A JSON       *)
(* string and a JSON number are told apart; an object is a function from    *)
(* its keys.                                                                *)
(***************************************************************************)
JString(s) == [json |-> "string", text |-> s]
JNumber(n) == [json |-> "number", value |-> n]
JUndefined == [json |-> "undefined"]

\* the JavaScript type of the value a transaction holds under a key
TypeOfField(key) ==
  CASE key \in {"from", "to", "validator", "contract", "args", "asset_id",
                "signature", "owner"} -> "Uint8Array"
    [] key \in {"amount", "fee", "gas_limit"} -> "bigint"
    [] key \in {"nonce"} -> "number"
    [] key \in {"chain_id", "valid_until_height"} -> "number?"
    [] key \in {"data", "metadata"} -> "object"
    [] key \in {"attributes"} -> "array"
    [] OTHER -> "string"

RECURSIVE serializeForApi(_, _)
\* serializeForApi: bytes to hex, bigint to its decimal string, arrays and
\* objects entry by entry, any other value (a number, a string) as it is
serializeForApi(key, value) ==
  CASE TypeOfField(key) = "Uint8Array" -> JString(BytesToHex(value))
    [] TypeOfField(key) = "bigint" -> JString(UlongToString(value))
    [] TypeOfField(key) = "array" ->
         [i \in 1..Len(value) |-> serializeForApi("", value[i])]
    [] TypeOfField(key) = "object" ->
         [k \in DOMAIN value |-> serializeForApi(k, value[k])]
    [] TypeOfField(key) = "number" -> JNumber(value)
    [] TypeOfField(key) = "number?" ->
         IF value = None THEN JUndefined ELSE JNumber(value[1])
    [] OTHER -> JString(value)

\* encodeTransactionForApi
encodeTransactionForApi(t) == serializeForApi("data", t)

\* the chain binding fields WriteJson adds when they have a value
ChainFieldsJson(t) ==
  LET chain == IF t.chain_id = None THEN {} ELSE {"chain_id"}
      height == IF t.valid_until_height = None THEN {}
                ELSE {"valid_until_height"}
  IN [k \in chain \cup height |-> JNumber(t[k][1])]

\* TransactionJsonConverter.WriteJson of a transaction
WriteJson(t) ==
  CASE t.type = "Transfer" ->
         [k \in {"Transfer"} |->
            [from |-> JString(BytesToHex(t.from)),
             to |-> JString(BytesToHex(t.to)),
             amount |-> JString(t.amount), fee |-> JString(t.fee),
             nonce |-> JNumber(t.nonce), signature |-> JString(t.signature)]
              @@ ChainFieldsJson(t)]
    [] t.type = "Stake" ->
         [k \in {"Stake"} |->
            [from |-> JString(BytesToHex(t.from)),
             validator |-> JString(BytesToHex(t.validator)),
             amount |-> JString(t.amount), fee |-> JString(t.fee),
             nonce |-> JNumber(t.nonce), signature |-> JString(t.signature)]
              @@ ChainFieldsJson(t)]
    [] t.type = "MistbornAsset" ->
         [k \in {"MistbornAsset"} |->
            [from |-> JString(BytesToHex(t.from)),
             action |-> JString(t.action),
             asset_id |-> JString(BytesToHex(t.asset_id)),
             data |-> [density |-> JString(t.data.density),
                       metadata |-> [m \in DOMAIN t.data.metadata |->
                                       JString(t.data.metadata[m])],
                       attributes |-> <<>>,
                       owner |-> JString(BytesToHex(t.data.owner))],
             fee |-> JString(t.fee), nonce |-> JNumber(t.nonce),
             signature |-> JString(t.signature)]
              @@ ChainFieldsJson(t)]

\* TransactionJsonConverter.ReadJson
ReadJson(json) == Throws("NotImplementedException")

\* an empty FString: what the Unreal builders return when they give up
EmptyFString == [json |-> "none"]

\* FTransactionBuilder::BuildSignedTransfer
BuildSignedTransfer(conv, kp, ToAddressHex, Amount, Fee, Nonce, ChainId, ValidUntilHeight) ==
  LET ToBytes == TransactionBuilderHexToBytes(ToAddressHex).bytes
      Payload == BuildTransferPayload(conv, kp.publicKey, ToBytes, Amount, Fee,
                                      Nonce, ChainId, ValidUntilHeight)
      Sig == KeyPairSign(kp, Payload)
  IN IF Len(kp.privateKey) # 32 \/ Len(kp.publicKey) # 32 THEN EmptyFString
     ELSE IF Len(ToBytes) # 32 THEN EmptyFString
     ELSE IF Len(Sig) # 64 THEN EmptyFString
     ELSE [k \in {"Transfer"} |->
             [from |-> JString(BytesToHex(kp.publicKey)),
              to |-> JString(Trim(ToAddressHex)),
              amount |-> JString(UlongToString(Amount)),
              fee |-> JString(UlongToString(Fee)),
              nonce |-> JNumber(Nonce),
              signature |-> JString(BytesToHex(Sig))]]

\* FTransactionBuilder::BuildSignedMistbornCreate (no attributes, no game id)
BuildSignedMistbornCreate(conv, kp, AssetIdHex, Density, Metadata, Fee, Nonce, ChainId, ValidUntilHeight) ==
  LET AssetIdBytes == TransactionBuilderHexToBytes(AssetIdHex).bytes
      Payload == BuildMistbornAssetPayload(conv, kp.publicKey, "Create",
                                           AssetIdBytes, kp.publicKey, Density,
                                           Fee, Nonce, NoMetadata, ChainId,
                                           ValidUntilHeight)
      Sig == KeyPairSign(kp, Payload)
  IN IF Len(kp.publicKey) # 32 THEN EmptyFString
     ELSE IF Len(AssetIdBytes) # 32 THEN EmptyFString
     ELSE IF Len(Sig) # 64 THEN EmptyFString
     ELSE [k \in {"MistbornAsset"} |->
             [from |-> JString(BytesToHex(kp.publicKey)),
              action |-> JString("Create"),
              asset_id |-> JString(Trim(AssetIdHex)),
              data |-> [density |-> JString(Density),
                        metadata |-> [m \in DOMAIN Metadata |->
                                        JString(Metadata[m])],
                        attributes |-> <<>>,
                        game_id |-> [json |-> "null"],
                        owner |-> JString(BytesToHex(kp.publicKey))],
              fee |-> JNumber(Fee), nonce |-> JNumber(Nonce),
              signature |-> JString(BytesToHex(Sig))]]

(***************************************************************************)
(* State machine of the transport: a transaction, the object each SDK       *)
(* sends for it, and what reading the Unity object back gives               *)
(***************************************************************************)
\* the transactions of the canonical payload, and transfers of nothing
TransportTxs ==
  InputTxs \cup {createTransfer(a, bytes32(2), 0, 0, n, None, None) :
                   a \in Addresses, n \in {0, 5}}

TransportInit ==
  /\ tx \in TransportTxs
  /\ transport = [s \in SDKs |-> Nil]
  /\ decoded = Nil
  /\ base = Nil /\ changed = "none"
  /\ payload = Nil /\ basePayload = Nil /\ keyPair = Nil
  /\ signed = Nil /\ address = Nil /\ wire = Nil
  /\ pool = Nil /\ request = Nil /\ quote = Nil
  /\ NoLifecycle /\ NoGuard /\ NoSubmit /\ NoLoad

\* an SDK produces the transport object of tx once
Sent(sdk, object) ==
  /\ transport[sdk] = Nil
  /\ transport' = [transport EXCEPT ![sdk] = object]
  /\ UNCHANGED <<tx, base, changed, payload, basePayload, keyPair, signed, address, economyVars, codecVars, clientVars>>

TsEncodeForApi ==
  /\ transport["ts"] = Nil
  /\ Sent("ts", encodeTransactionForApi(tx))

\* JsonConvert.SerializeObject(transaction, settings) with the converter
UnityWriteJson ==
  /\ tx.type \in Supported("unity")
  /\ Sent("unity", WriteJson(UnityTransaction(tx)))

UnrealBuildSignedTransfer ==
  /\ tx.type = "Transfer"
  /\ \E conv \in LiteralConversions :
       Sent("unreal",
            BuildSignedTransfer(conv, KeyPairOf(tx.from), BytesToHex(tx.to),
                                tx.amount, tx.fee, tx.nonce, tx.chain_id,
                                tx.valid_until_height))

UnrealBuildSignedMistbornCreate ==
  /\ tx.type = "MistbornAsset" /\ tx.action = "Create"
  /\ \E conv \in LiteralConversions :
       Sent("unreal",
            BuildSignedMistbornCreate(conv, KeyPairOf(tx.from),
                                      BytesToHex(tx.asset_id), tx.data.density,
                                      tx.data.metadata, tx.fee, tx.nonce,
                                      tx.chain_id, tx.valid_until_height))

\* the converter is asked to read the object it wrote
UnityReadJson ==
  /\ transport["unity"] # Nil /\ decoded = Nil
  /\ decoded' = ReadJson(transport["unity"])
  /\ UNCHANGED <<txVars, economyVars, wire, clientVars>>

TransportNext ==
  \/ TsEncodeForApi
  \/ UnityWriteJson
  \/ UnrealBuildSignedTransfer
  \/ UnrealBuildSignedMistbornCreate
  \/ UnityReadJson

TransportSpec == TransportInit /\ [][TransportNext]_vars

(***************************************************************************)
(* Transaction objects in an application's memory.  An object has an        *)
(* identity (its place in objects), remembers which SDK made it and how,    *)
(* and lists its keys in insertion order, as a JavaScript object does.      *)
(***************************************************************************)
\* number of transaction objects the model follows
MaxObjects == 3

\* the key order of the object literal in createTransfer and createStake
BuilderKeys(type) ==
  IF type = "Transfer"
  THEN <<"type", "from", "to", "amount", "fee", "nonce", "signature">>
  ELSE <<"type", "from", "validator", "amount", "fee", "nonce", "signature">>

\* the same keys as an application's own object literal may order them
LiteralKeys == <<"from", "to", "amount", "fee", "nonce", "type", "signature">>

\* a new object: one made by a builder, by sign, or by an object literal
NewObject(sdk, origin, keys, fields) ==
  [sdk |-> sdk, origin |-> origin, keys |-> keys, fields |-> fields]

\* TransactionBuilder.Sign (Unity): tx.signature = BytesToHex(signature)
Sign(t, kp) ==
  LET message == GetTransactionDataForSigning(t)
  IN IF ~message.ok THEN Throw
     ELSE [ok |-> TRUE, bytes |-> <<>>,
           tx |-> [t EXCEPT !.signature = BytesToHex(KeyPairSign(kp, message.bytes))]]

\* the name of a key as JSON.stringify writes it
KeyName(key) ==
  CASE key = "type" -> <<116, 121, 112, 101>>
    [] key = "from" -> <<102, 114, 111, 109>>
    [] key = "to" -> <<116, 111>>
    [] key = "validator" -> <<118, 97, 108, 105, 100, 97, 116, 111, 114>>
    [] key = "amount" -> <<97, 109, 111, 117, 110, 116>>
    [] key = "fee" -> <<102, 101, 101>>
    [] key = "nonce" -> <<110, 111, 110, 99, 101>>
    [] key = "signature" -> <<115, 105, 103, 110, 97, 116, 117, 114, 101>>
    [] key = "chain_id" -> <<99, 104, 97, 105, 110, 95, 105, 100>>
    [] key = "valid_until_height" -> <<118, 97, 108, 105, 100, 95, 117, 110, 116, 105, 108, 95, 104, 101, 105, 103, 104, 116>>

\* the text of a transaction's type tag
TypeName(type) ==
  CASE type = "Transfer" -> StrTransfer
    [] type = "Stake" -> StrStake
    [] type = "ContractCall" -> StrContractCall
    [] type = "MistbornAsset" -> StrMistbornAsset

Quoted(s) == <<34>> \o s \o <<34>>

\* the replacer of getHash: no signature, a bigint as its decimal string, bytes
\* as lowercase hex; JSON.stringify leaves out an undefined value
HashReplacer(key, value) ==
  CASE key = "signature" -> JUndefined
    [] TypeOfField(key) = "bigint" -> JString(UlongToString(value))
    [] TypeOfField(key) = "Uint8Array" -> JString(BytesToHex(value))
    [] TypeOfField(key) = "number" -> JNumber(value)
    [] TypeOfField(key) = "number?" ->
         IF value = None THEN JUndefined ELSE JNumber(value[1])
    [] key = "type" -> JString(TypeName(value))
    [] OTHER -> JString(value)

\* the text of one JSON value
JsonText(v) ==
  IF v.json = "string" THEN Quoted(v.text) ELSE UlongToString(v.value)

RECURSIVE JsonMembers(_, _, _, _)
\* "key":value of each key from the i-th on, in insertion order, with commas
\* between the members that are written
JsonMembers(keys, fields, i, first) ==
  IF i > Len(keys) THEN <<>>
  ELSE LET v == HashReplacer(keys[i], fields[keys[i]])
       IN IF v = JUndefined THEN JsonMembers(keys, fields, i + 1, first)
          ELSE (IF first THEN <<>> ELSE <<44>>)
                 \o Quoted(KeyName(keys[i])) \o <<58>> \o JsonText(v)
                 \o JsonMembers(keys, fields, i + 1, FALSE)

\* JSON.stringify(transaction, replacer)
JsonStringify(keys, fields) ==
  <<123>> \o JsonMembers(keys, fields, 1, TRUE) \o <<125>>

RECURSIVE Utf8Text(_, _, _)
\* Buffer.from(text, 'utf-8'), by halving the range
Utf8Text(s, lo, hi) ==
  IF lo > hi THEN <<>>
  ELSE IF lo = hi THEN Utf8Unit(s[lo])
  ELSE Utf8Text(s, lo, (lo + hi) \div 2) \o Utf8Text(s, (lo + hi) \div 2 + 1, hi)

HashOfText(txData) == sha256(Utf8Text(txData, 1, Len(txData)))

\* TransactionBuilder.getHash
getHash(object) == HashOfText(JsonStringify(object.keys, object.fields))

(***************************************************************************)
(* State machine of the lifecycle: builders, sign and getHash act on the    *)
(* objects                                                                  *)
(***************************************************************************)
\* the sender of the transactions only one of which is built
OneSender == EdPublicKey(bytes32(1))

LifecycleInit ==
  /\ objects = <<>>
  /\ hashes = [i \in 1..MaxObjects |-> Nil]
  /\ tx = Nil /\ base = Nil /\ changed = "none"
  /\ payload = Nil /\ basePayload = Nil /\ keyPair = Nil
  /\ signed = Nil /\ address = Nil /\ transport = Nil
  /\ pool = Nil /\ request = Nil /\ quote = Nil
  /\ wire = Nil /\ decoded = Nil
  /\ NoGuard /\ NoSubmit /\ NoLoad

\* a call returns a new object
Allocate(object) ==
  /\ Len(objects) < MaxObjects
  /\ objects' = Append(objects, object)
  /\ UNCHANGED <<hashes, txVars, economyVars, codecVars, guardVars, submitVars, loadVars>>

TsCreateTransfer ==
  /\ Len(objects) < MaxObjects
  /\ \E from \in Addresses :
       Allocate(NewObject("ts", "builder", BuilderKeys("Transfer"),
                          createTransfer(from, bytes32(2), AmountValue, FeeValue,
                                         0, None, None)))

TsCreateStake ==
  /\ Len(objects) < MaxObjects
  /\ Allocate(NewObject("ts", "builder", BuilderKeys("Stake"),
                        createStake(OneSender, bytes32(2), AmountValue, FeeValue,
                                    0, None, None)))

\* the application writes a transfer as an object literal of its own
TsObjectLiteral ==
  /\ Len(objects) < MaxObjects
  /\ Allocate(NewObject("ts", "literal", LiteralKeys,
                        createTransfer(OneSender, bytes32(2), AmountValue,
                                       FeeValue, 0, None, None)))

\* TransactionBuilder.sign returns a copy: { ...transaction, signature }
TsBuilderSign ==
  /\ Len(objects) < MaxObjects
  /\ \E i \in 1..Len(objects), k \in PrivateKeys :
       /\ objects[i].sdk = "ts"
       /\ \E r \in {sign(objects[i].fields, KeyPair(k))} :
            /\ r.ok
            /\ Allocate([objects[i] EXCEPT !.origin = "sign", !.fields = r.tx])

UnityCreateTransfer ==
  /\ Len(objects) < MaxObjects
  /\ \E c \in ChainOptions :
       Allocate(NewObject("unity", "builder", <<>>,
                          UnityTransaction(createTransfer(OneSender, bytes32(2),
                                                          AmountValue, FeeValue,
                                                          0, c[1], c[2]))))

UnityCreateStake ==
  /\ Len(objects) < MaxObjects
  /\ Allocate(NewObject("unity", "builder", <<>>,
                        UnityTransaction(createStake(OneSender, bytes32(2),
                                                     AmountValue, FeeValue, 0,
                                                     None, None))))

\* TransactionBuilder.Sign writes the signature into the object it was given
UnitySign ==
  \E i \in 1..Len(objects), k \in PrivateKeys :
    /\ objects[i].sdk = "unity"
    /\ \E r \in {Sign(objects[i].fields, KeyPair(k))} :
         /\ r.ok
         /\ objects' = [objects EXCEPT ![i].fields = r.tx]
    /\ UNCHANGED <<hashes, txVars, economyVars, codecVars, guardVars, submitVars, loadVars>>

TsGetHash ==
  \E i \in 1..Len(objects) :
    /\ objects[i].sdk = "ts" /\ hashes[i] = Nil
    /\ hashes' = [hashes EXCEPT ![i] = getHash(objects[i])]
    /\ UNCHANGED <<objects, txVars, economyVars, codecVars, guardVars, submitVars, loadVars>>

LifecycleNext ==
  \/ TsCreateTransfer
  \/ TsCreateStake
  \/ TsObjectLiteral
  \/ TsBuilderSign
  \/ UnityCreateTransfer
  \/ UnityCreateStake
  \/ UnitySign
  \/ TsGetHash

LifecycleSpec == LifecycleInit /\ [][LifecycleNext]_vars

(***************************************************************************)
(* State machine of the length checks: one byte array is handed, as an      *)
(* address, a hash or a private key, to the operations that take one        *)
(***************************************************************************)
\* new Hash(bytes) (Unity): throws unless bytes has 32 elements
Hash(bytes) == IF Len(bytes) # 32 THEN Throw ELSE Ok(bytes)

\* KeyPair.fromPrivateKey (TypeScript): throws unless the key has 32 bytes
fromPrivateKey(privateKey) ==
  IF Len(privateKey) # 32 THEN Throw
  ELSE [ok |-> TRUE, bytes |-> <<>>, keyPair |-> KeyPair(privateKey)]

\* the lengths of the byte arrays handed over
GivenLengths == {0, 31, 32, 33, 64}

\* the operations that are handed the byte array
GuardedOperations ==
  {"ts.createTransfer", "ts.sign", "ts.encodeTransactionForApi",
   "ts.fromPrivateKey", "unity.Address", "unity.Hash",
   "unreal.BuildTransferPayload"}

GuardInit ==
  /\ given \in {[i \in 1..n |-> 7] : n \in GivenLengths}
  /\ produced = [op \in GuardedOperations |-> Nil]
  /\ tx = Nil /\ base = Nil /\ changed = "none"
  /\ payload = Nil /\ basePayload = Nil /\ keyPair = Nil
  /\ signed = Nil /\ address = Nil /\ transport = Nil
  /\ pool = Nil /\ request = Nil /\ quote = Nil
  /\ wire = Nil /\ decoded = Nil
  /\ NoLifecycle /\ NoSubmit /\ NoLoad

\* an operation is called once and its outcome kept
Outcome(op, result) ==
  /\ produced[op] = Nil
  /\ produced' = [produced EXCEPT ![op] = result]
  /\ UNCHANGED <<given, txVars, economyVars, codecVars, lifecycleVars, submitVars, loadVars>>

\* createTransfer with the byte array as the sender's address
TsCreateTransferFrom ==
  /\ produced["ts.createTransfer"] = Nil
  /\ Outcome("ts.createTransfer",
             [ok |-> TRUE, bytes |-> <<>>,
              tx |-> createTransfer(given, bytes32(2), AmountValue, FeeValue, 0,
                                    None, None)])

\* sign of the transaction the builder returned
TsSignBuilt ==
  /\ produced["ts.createTransfer"] # Nil
  /\ \E k \in PrivateKeys :
       Outcome("ts.sign", sign(produced["ts.createTransfer"].tx, KeyPair(k)))

\* encodeTransactionForApi of the transaction the builder returned
TsEncodeBuilt ==
  /\ produced["ts.createTransfer"] # Nil
  /\ Outcome("ts.encodeTransactionForApi",
             [ok |-> TRUE, bytes |-> <<>>,
              object |-> encodeTransactionForApi(produced["ts.createTransfer"].tx)])

TsFromPrivateKey ==
  /\ produced["ts.fromPrivateKey"] = Nil
  /\ Outcome("ts.fromPrivateKey", fromPrivateKey(given))

UnityNewAddress ==
  /\ produced["unity.Address"] = Nil
  /\ Outcome("unity.Address", Address(given))

UnityNewHash ==
  /\ produced["unity.Hash"] = Nil
  /\ Outcome("unity.Hash", Hash(given))

\* BuildTransferPayload with the byte array as FromAddress
UnrealBuildTransferPayload ==
  /\ produced["unreal.BuildTransferPayload"] = Nil
  /\ \E conv \in LiteralConversions :
       Outcome("unreal.BuildTransferPayload",
               Ok(BuildTransferPayload(conv, given, bytes32(2), AmountValue,
                                       FeeValue, 0, None, None)))

GuardNext ==
  \/ TsCreateTransferFrom
  \/ TsSignBuilt
  \/ TsEncodeBuilt
  \/ TsFromPrivateKey
  \/ UnityNewAddress
  \/ UnityNewHash
  \/ UnrealBuildTransferPayload

GuardSpec == GuardInit /\ [][GuardNext]_vars

(***************************************************************************)
(* Submitting a transaction.  The node is outside the SDKs: its answer to   *)
(* a POST is an input.  An error message is the sequence of its pieces, so  *)
(* that a text is told apart from the same text with something around it.   *)
(***************************************************************************)
\* error texts of a node that rejects a transaction
RejectionTexts == {"insufficient balance", "invalid nonce", "transaction too large"}

\* HTTP statuses a rejection comes with
RejectionStatuses == {200, 400, 409}

\* the node accepts, rejects (ApiResponse with success false and an error
\* text), answers through a gateway that has no ApiResponse body, or cannot
\* be reached
NodeAnswers ==
  {[kind |-> "accepted", status |-> 200,
    body |-> [success |-> TRUE, data |-> Some("pending"), error |-> None]]}
  \cup {[kind |-> "rejected", status |-> s,
         body |-> [success |-> FALSE, data |-> None, error |-> Some(e)]] :
          s \in RejectionStatuses, e \in RejectionTexts}
  \cup {[kind |-> "gateway", status |-> 502,
         body |-> [success |-> FALSE, data |-> None, error |-> None]]}
  \cup {[kind |-> "unreachable", status |-> 0,
         body |-> [success |-> FALSE, data |-> None, error |-> None]]}

\* the transaction that is submitted
SubmittedTx ==
  createTransfer(OneSender, bytes32(2), AmountValue, FeeValue, 0, None, None)

Resolved(data) == [ok |-> TRUE, data |-> data]
Rejected(message) == [ok |-> FALSE, message |-> message]

\* what `await this.axios.post(...)` gives: the response of a 2xx status, an
\* AxiosError with the response of any other status, one without a response
\* when the node cannot be reached
AxiosPost(answer) ==
  CASE answer.kind = "unreachable" ->
         [threw |-> TRUE, isAxiosError |-> TRUE, response |-> None,
          message |-> <<"Network Error">>]
    [] answer.status \in 200..299 ->
         [threw |-> FALSE, response |-> Some(answer.body)]
    [] OTHER ->
         [threw |-> TRUE, isAxiosError |-> TRUE, response |-> Some(answer.body),
          message |-> <<"Request failed with status code ", answer.status>>]

\* HazeClient.sendTransaction (TypeScript), from the answer to its one POST
sendTransaction(answer) ==
  LET posted == AxiosPost(answer)
  IN IF ~posted.threw
     THEN IF ~posted.response[1].success \/ posted.response[1].data = None
          THEN Rejected(IF posted.response[1].error # None
                        THEN <<posted.response[1].error[1]>>
                        ELSE <<"Failed to send transaction">>)
          ELSE Resolved(posted.response[1].data[1])
     ELSE IF /\ posted.isAxiosError /\ posted.response # None
             /\ posted.response[1].error # None
          THEN Rejected(<<posted.response[1].error[1]>>)
          ELSE Rejected(posted.message)

\* HttpStatusCode as C# prints it
StatusCodeName(status) ==
  CASE status = 400 -> "BadRequest"
    [] status = 409 -> "Conflict"
    [] status = 502 -> "BadGateway"
    [] OTHER -> "OK"

\* HazeClient.PostAsync: whatever is thrown inside is wrapped in
\* "Request failed: ..."; the content of a non-success status is not parsed
PostAsync(answer) ==
  CASE answer.kind = "unreachable" ->
         Rejected(<<"Request failed: ",
                    "An error occurred while sending the request.">>)
    [] answer.status \notin 200..299 ->
         Rejected(<<"Request failed: ", "HTTP ", StatusCodeName(answer.status),
                    ": ", [content |-> answer.body]>>)
    [] OTHER -> Resolved(answer.body)

\* HazeClient.SendTransactionAsync (Unity), from the answer to its one POST
SendTransactionAsync(answer) ==
  LET response == PostAsync(answer)
  IN IF ~response.ok THEN response
     ELSE IF ~response.data.success \/ response.data.data = None
     THEN Rejected(IF response.data.error # None
                   THEN <<response.data.error[1]>>
                   ELSE <<"Failed to send transaction">>)
     ELSE Resolved(response.data.data[1])

(***************************************************************************)
(* State machine of a submission: each SDK's submit call posts the          *)
(* transaction and settles when the node's answer arrives                   *)
(***************************************************************************)
SubmitInit ==
  /\ node \in NodeAnswers
  /\ submission =
       [s \in {"ts", "unity"} |-> [pc |-> "idle", requests |-> <<>>, outcome |-> Nil]]
  /\ tx = Nil /\ base = Nil /\ changed = "none"
  /\ payload = Nil /\ basePayload = Nil /\ keyPair = Nil
  /\ signed = Nil /\ address = Nil /\ transport = Nil
  /\ pool = Nil /\ request = Nil /\ quote = Nil
  /\ wire = Nil /\ decoded = Nil
  /\ NoLifecycle /\ NoGuard /\ NoLoad

\* the call sends its request and waits for the answer
Post(sdk, body) ==
  /\ submission[sdk].pc = "idle"
  /\ submission' = [submission EXCEPT ![sdk].pc = "awaiting",
                                      ![sdk].requests = Append(@, body)]
  /\ UNCHANGED <<node, txVars, economyVars, codecVars, lifecycleVars, guardVars, loadVars>>

\* the answer arrives and the call returns or throws
Settle(sdk, outcome) ==
  /\ submission[sdk].pc = "awaiting"
  /\ submission' = [submission EXCEPT ![sdk].pc = "done", ![sdk].outcome = outcome]
  /\ UNCHANGED <<node, txVars, economyVars, codecVars, lifecycleVars, guardVars, loadVars>>

TsSendTransaction ==
  /\ submission["ts"].pc = "idle"
  /\ Post("ts", [transaction |-> encodeTransactionForApi(SubmittedTx)])

TsSendSettles ==
  /\ submission["ts"].pc = "awaiting"
  /\ Settle("ts", sendTransaction(node))

UnitySendTransaction ==
  /\ submission["unity"].pc = "idle"
  /\ Post("unity", [transaction |-> WriteJson(UnityTransaction(SubmittedTx))])

UnitySendSettles ==
  /\ submission["unity"].pc = "awaiting"
  /\ Settle("unity", SendTransactionAsync(node))

SubmitNext ==
  \/ TsSendTransaction
  \/ TsSendSettles
  \/ UnitySendTransaction
  \/ UnitySendSettles

SubmitSpec == SubmitInit /\ [][SubmitNext]_vars

(***************************************************************************)
(* Signature verification on arbitrary arguments: a call either returns a   *)
(* boolean or raises                                                        *)
(***************************************************************************)
Returned(value) == [raised |-> FALSE, value |-> value]
Raised == [raised |-> TRUE, value |-> FALSE]

\* Verify without its guards and its try: a null argument raises at
\* signature.Length, a malformed one inside Ed25519.Verify
VerifyUnguarded(message, signature, publicKey) ==
  LET r == EdVerify(signature, message, publicKey)
  IN IF r.ok THEN Returned(r.valid) ELSE Raised

\* KeyPair.Verify (Unity): false for a null argument, false for a signature
\* that is not 64 bytes or a key that is not 32, false when Ed25519.Verify throws
Verify(message, signature, publicKey) ==
  IF message = null \/ signature = null \/ publicKey = null THEN Returned(FALSE)
  ELSE IF Len(signature) # 64 \/ Len(publicKey) # 32 THEN Returned(FALSE)
  ELSE LET r == EdVerify(signature, message, publicKey)
       IN IF r.ok THEN Returned(r.valid) ELSE Returned(FALSE)

\* the message that was signed
SignedMessage == getTransactionDataForSigning(SubmittedTx).bytes

\* byte arrays of every length of GivenLengths, and no array at all
Malformed == {null} \cup {[i \in 1..n |-> 7] : n \in GivenLengths}

VerifyInit ==
  /\ given \in [message : {null, <<>>, SignedMessage},
                signature : Malformed \cup {EdSign(SignedMessage, k) : k \in PrivateKeys},
                publicKey : Malformed \cup {EdPublicKey(k) : k \in PrivateKeys}]
  /\ produced = [s \in {"ts", "unity"} |-> Nil]
  /\ tx = Nil /\ base = Nil /\ changed = "none"
  /\ payload = Nil /\ basePayload = Nil /\ keyPair = Nil
  /\ signed = Nil /\ address = Nil /\ transport = Nil
  /\ pool = Nil /\ request = Nil /\ quote = Nil
  /\ wire = Nil /\ decoded = Nil
  /\ NoLifecycle /\ NoSubmit /\ NoLoad

\* KeyPair.verify (TypeScript) is called with the three arguments
TsVerify ==
  /\ produced["ts"] = Nil
  /\ produced' = [produced EXCEPT
                    !["ts"] = Returned(verify(given.message, given.signature,
                                              given.publicKey))]
  /\ UNCHANGED <<given, txVars, economyVars, codecVars, lifecycleVars, submitVars, loadVars>>

\* KeyPair.Verify (Unity) is called with the three arguments
UnityVerify ==
  /\ produced["unity"] = Nil
  /\ produced' = [produced EXCEPT
                    !["unity"] = Verify(given.message, given.signature,
                                        given.publicKey)]
  /\ UNCHANGED <<given, txVars, economyVars, codecVars, lifecycleVars, submitVars, loadVars>>

VerifyNext ==
  \/ TsVerify
  \/ UnityVerify

VerifySpec == VerifyInit /\ [][VerifyNext]_vars

(***************************************************************************)
(* The load test (examples/load-test.ts).  JavaScript runs one continuation *)
(* at a time: a sender's code between two awaits is one step.               *)
(***************************************************************************)
\* the largest HAZE_LOAD_TX_COUNT and HAZE_LOAD_CONCURRENT of the model
MaxTxCount == 4
MaxConcurrent == 3

\* HAZE_LOAD_MIX_RATIO values that split the model's few indices both ways
MixRatios == {0, 2, 100}

\* parseConfig for integer settings: txCount at least 1, concurrent in 1..50
LoadConfigs ==
  {[txCount |-> n, concurrent |-> c, mode |-> m[1], mixRatio |-> m[2]] :
     n \in 1..MaxTxCount, c \in 1..MaxConcurrent,
     m \in {<<"transfer", 50>>, <<"asset", 50>>} \cup {<<"mixed", r>> : r \in MixRatios}}

\* const sender = await KeyPair.generate(); const recipient = ...
LoadSender == KeyPair(bytes32(1))
LoadRecipient == KeyPair(bytes32(2))

\* Math.ceil(config.txCount / config.concurrent)
txPerSender(cfg) == (cfg.txCount + cfg.concurrent - 1) \div cfg.concurrent

\* the batch of sender i of runLoadTest: the count without the cap at txCount
BatchCountUncapped(cfg, i) == txPerSender(cfg)

\* the batch of sender i: Math.min(txPerSender, config.txCount - startNonce)
BatchCount(cfg, i) ==
  IF txPerSender(cfg) < cfg.txCount - i * txPerSender(cfg)
  THEN txPerSender(cfg)
  ELSE cfg.txCount - i * txPerSender(cfg)

\* MistbornAsset.createCreateTransaction as the batches call it: no nonce is
\* passed and the transaction has fee 0n and nonce 0
createCreateTransaction(assetId, owner, density, metadata) ==
  MistbornAssetTransaction("Create", assetId, owner, density, metadata, 0, 0,
                           None, None)

\* sendTransactionBatch builds transfers, sendAssetBatch asset creations,
\* sendMixedBatch a transfer when (globalIndex % 100) < mixRatio
IsTransfer(cfg, globalIndex) ==
  \/ cfg.mode = "transfer"
  \/ cfg.mode = "mixed" /\ (globalIndex % 100) < cfg.mixRatio

\* the transaction a batch builds for a global index
BatchTransaction(isTransfer, globalIndex) ==
  IF isTransfer
  THEN createTransfer(getAddress(LoadSender), getAddress(LoadRecipient), 1, 1,
                      globalIndex, None, None)
  ELSE createCreateTransaction(sha256(UlongToString(globalIndex)),
                               getAddress(LoadSender), "Ethereal",
                               [k \in {"index"} |-> UlongToString(globalIndex)])

\* await TransactionBuilder.sign(tx, sender) for each transaction a run of the
\* model can build, by kind and global index
SignedBatch ==
  [isTransfer \in BOOLEAN, globalIndex \in 0..(2 * MaxTxCount) |->
     sign(BatchTransaction(isTransfer, globalIndex), LoadSender)]

\* a sender that waits, one that has returned
Running(worker) == worker.pc \in {"signing", "sending", "delay"}

\* a sender enters an iteration: it builds the transaction of its next index
\* and awaits TransactionBuilder.sign
Attempt(worker, i) ==
  [worker EXCEPT !.i = i, !.pc = "signing",
                 !.attempted = Append(@, worker.start + i)]

\* the end of an iteration: a delay unless it was the batch's last
AfterIteration(worker) ==
  [worker EXCEPT !.pc = IF worker.i < worker.count - 1 THEN "delay" ELSE "done"]

\* stats.success++ or stats.failed++, then stats.sent++
Counted(s, ok) ==
  [sent |-> s.sent + 1,
   success |-> IF ok THEN s.success + 1 ELSE s.success,
   failed |-> IF ok THEN s.failed ELSE s.failed + 1]

LoadInit ==
  /\ config \in LoadConfigs
  /\ workers = <<>>
  /\ stats = [sent |-> 0, success |-> 0, failed |-> 0]
  /\ submitted = {}
  /\ tx = Nil /\ base = Nil /\ changed = "none"
  /\ payload = Nil /\ basePayload = Nil /\ keyPair = Nil
  /\ signed = Nil /\ address = Nil /\ transport = Nil
  /\ pool = Nil /\ request = Nil /\ quote = Nil
  /\ wire = Nil /\ decoded = Nil
  /\ NoLifecycle /\ NoGuard /\ NoSubmit

\* runLoadTest: the loop that starts the batches; a batch runs up to its
\* first await, a sender without transactions gets no batch
RunLoadTest ==
  /\ workers = <<>>
  /\ workers' =
       [w \in 1..config.concurrent |->
          LET i == w - 1
              worker == [start |-> i * txPerSender(config),
                         count |-> BatchCount(config, i),
                         i |-> 0, pc |-> "none", attempted |-> <<>>]
          IN IF worker.count > 0 THEN Attempt(worker, 0) ELSE worker]
  /\ UNCHANGED <<config, stats, submitted, txVars, economyVars, codecVars, lifecycleVars, guardVars, submitVars>>

\* sign has settled: the signed transaction is handed to client.sendTransaction,
\* or the catch counts the failure
SignSettles ==
  /\ workers # <<>>
  /\ \E w \in 1..Len(workers) :
       /\ workers[w].pc = "signing"
       /\ \E r \in {SignedBatch[IsTransfer(config, workers[w].start + workers[w].i),
                              workers[w].start + workers[w].i]} :
            IF r.ok
            THEN /\ submitted' = submitted \cup
                                   {[index |-> workers[w].start + workers[w].i,
                                     type |-> r.tx.type,
                                     from |-> r.tx.from,
                                     nonce |-> r.tx.nonce,
                                     signer |-> LoadSender.publicKey]}
                 /\ workers' = [workers EXCEPT ![w].pc = "sending"]
                 /\ UNCHANGED stats
            ELSE /\ stats' = Counted(stats, FALSE)
                 /\ workers' = [workers EXCEPT ![w] = AfterIteration(@)]
                 /\ UNCHANGED submitted
  /\ UNCHANGED <<config, txVars, economyVars, codecVars, lifecycleVars, guardVars, submitVars>>

\* the submission resolves or rejects: the sender counts it, once
SendSettles ==
  /\ workers # <<>>
  /\ \E w \in 1..Len(workers), ok \in BOOLEAN :
       /\ workers[w].pc = "sending"
       /\ stats' = Counted(stats, ok)
       /\ workers' = [workers EXCEPT ![w] = AfterIteration(@)]
  /\ UNCHANGED <<config, submitted, txVars, economyVars, codecVars, lifecycleVars, guardVars, submitVars>>

\* the delay between two transactions of a batch has passed
DelayElapses ==
  /\ workers # <<>>
  /\ \E w \in 1..Len(workers) :
       /\ workers[w].pc = "delay"
       /\ workers' = [workers EXCEPT ![w] = Attempt(@, workers[w].i + 1)]
  /\ UNCHANGED <<config, stats, submitted, txVars, economyVars, codecVars, lifecycleVars, guardVars, submitVars>>

LoadNext ==
  \/ RunLoadTest
  \/ SignSettles
  \/ SendSettles
  \/ DelayElapses

LoadSpec == LoadInit /\ [][LoadNext]_vars

\* the event loop runs every continuation that is ready, every timer fires
\* and, as the claim supposes, every submission settles
LoadLiveSpec == LoadSpec /\ WF_vars(LoadNext)

(***************************************************************************)
(* Properties                                                               *)
(***************************************************************************)
\* s without its first n elements
Drop(s, n) == IF n >= Len(s) THEN <<>> ELSE SubSeq(s, n + 1, Len(s))

\* the bytes b[from .. from + n - 1]
Slice(b, from, n) == SubSeq(b, from, from + n - 1)

RECURSIVE LittleEndianValue(_)
\* the number a byte string denotes, least significant byte first
LittleEndianValue(b) ==
  IF b = <<>> THEN 0 ELSE Head(b) + 256 * LittleEndianValue(Tail(b))

\* b is the 8-byte little-endian form of v
IsU64LE(b, v) == Len(b) = 8 /\ LittleEndianValue(b) = v

\* the SDKs that have encoded tx without throwing
EncodedBy == {s \in SDKs : payload[s] # Nil /\ payload[s].ok}

\* the SDKs that have encoded tx and the transaction it was copied from
EncodedBoth ==
  {s \in EncodedBy : base # Nil /\ basePayload[s] # Nil /\ basePayload[s].ok}

ChainUnset(t) == t.chain_id = None /\ t.valid_until_height = None

\* p is q with the bytes ins inserted at some position
InsertedInto(p, q, ins) ==
  \E k \in 0..Len(q) : p = Take(q, k) \o ins \o Drop(q, k)

\* the 96-byte layout of a Transfer payload
IsTransferLayout(p, t) ==
  /\ Len(p) = 96
  /\ Slice(p, 1, 8) = StrTransfer
  /\ Slice(p, 9, 32) = t.from
  /\ Slice(p, 41, 32) = t.to
  /\ IsU64LE(Slice(p, 73, 8), t.amount)
  /\ IsU64LE(Slice(p, 81, 8), t.fee)
  /\ IsU64LE(Slice(p, 89, 8), t.nonce)

\* C1: a Transfer without chain-binding fields encodes, in every SDK, to exactly
\* 'Transfer', from, to, amount, fee, nonce (u64 little-endian): 96 bytes
C1_TransferLayout ==
  (tx.type = "Transfer" /\ ChainUnset(tx)) =>
    \A s \in SDKs : payload[s] # Nil =>
      payload[s].ok /\ IsTransferLayout(payload[s].bytes, tx)

\* C2: in every variant, two transactions that differ only in from, only in fee
\* or only in nonce have different payloads
C2_CoversFromFeeNonce ==
  changed \in {"from", "fee", "nonce"} =>
    \A s \in EncodedBoth : payload[s].bytes # basePayload[s].bytes

\* the bytes an other-asset id in hex stands for
DecodedOtherId(hex) == IF hex = OtherIdHex THEN bytes32(99) ELSE <<171, 205>>

\* length of the fixed fields of an asset payload: tag 13, from 32, action 1,
\* asset id 32, owner 32, density 1, fee 8, nonce 8, then 8 per chain field
AssetFixedLength(t) == 127 + 8 * (Len(t.chain_id) + Len(t.valid_until_height))

\* C3: a Merge whose metadata has the _other_asset_id entry encodes to the
\* payload without the entry plus the 32 decoded bytes of the id; without the
\* entry the payload has the fixed fields only
C3_MergeAppendsOtherAsset ==
  /\ changed = "_other_asset_id" =>
       \A s \in SDKs : (payload[s] # Nil /\ basePayload[s].ok) =>
         /\ payload[s].ok
         /\ Len(payload[s].bytes) = Len(basePayload[s].bytes) + 32
         /\ InsertedInto(payload[s].bytes, basePayload[s].bytes,
                         DecodedOtherId(tx.data.metadata["_other_asset_id"]))
  /\ (/\ tx.type = "MistbornAsset" /\ tx.action = "Merge"
      /\ "_other_asset_id" \notin DOMAIN tx.data.metadata) =>
       \A s \in EncodedBy \ {"ts"} :
         Len(payload[s].bytes) = AssetFixedLength(tx)

\* C4: a Split whose metadata has the _components entry encodes to the payload
\* without the entry plus the encoded bytes of the string, whatever it holds
C4_SplitAppendsComponents ==
  changed = "_components" =>
    \A s \in SDKs : (payload[s] # Nil /\ basePayload[s].ok) =>
      /\ payload[s].ok
      /\ Len(payload[s].bytes) =
           Len(basePayload[s].bytes) + Len(Utf8(tx.data.metadata["_components"]))
      /\ InsertedInto(payload[s].bytes, basePayload[s].bytes,
                      Utf8(tx.data.metadata["_components"]))

\* b is the chain-binding suffix of t: chain_id then valid_until_height, each
\* 8 bytes little-endian, the unset ones left out
IsChainSuffix(b, t) ==
  /\ Len(b) = 8 * (Len(t.chain_id) + Len(t.valid_until_height))
  /\ t.chain_id # None => IsU64LE(Slice(b, 1, 8), t.chain_id[1])
  /\ t.valid_until_height # None =>
       IsU64LE(Slice(b, Len(b) - 7, 8), t.valid_until_height[1])

\* C5: a payload with chain_id and/or valid_until_height set is the payload of
\* the same transaction with both unset, followed by the fields that are set
C5_ChainFieldsLast ==
  changed = "chain" =>
    \A s \in EncodedBoth :
      /\ Len(payload[s].bytes) >= Len(basePayload[s].bytes)
      /\ Take(payload[s].bytes, Len(basePayload[s].bytes)) = basePayload[s].bytes
      /\ IsChainSuffix(Drop(payload[s].bytes, Len(basePayload[s].bytes)), tx)

\* p holds the bytes part as one block
ContainsBlock(p, part) ==
  \E k \in 1..(Len(p) - Len(part) + 1) : Slice(p, k, Len(part)) = part

\* C6: the variable-length part of a ContractCall payload is the method-name
\* bytes, one 0x00 byte and the raw argument bytes, one after the other
C6_ContractCallVariablePart ==
  tx.type = "ContractCall" =>
    \A s \in EncodedBy :
      ContainsBlock(payload[s].bytes, Utf8(tx.method) \o <<0>> \o tx.args)

\* the documented byte of each action and density
ActionByte ==
  [Create |-> 0, Update |-> 1, Condense |-> 2, Evaporate |-> 3, Merge |-> 4,
   Split |-> 5]

DensityByte == [Ethereal |-> 0, Light |-> 1, Dense |-> 2, Core |-> 3]

\* where the action byte sits: after the 13-byte tag, and in the Unity and
\* Unreal layouts after from as well
ActionPosition(s) == IF s = "ts" THEN 14 ELSE 46

C8_EncodersAgree ==
  tx.type \in {"Transfer", "Stake", "MistbornAsset"} =>
    \A s1, s2 \in EncodedBy : payload[s1].bytes = payload[s2].bytes

C10_AddressIsPublicKey ==
  address # Nil =>
    /\ address.value.ok
    /\ Len(address.value.bytes) = 32
    /\ address.value.bytes = keyPair.publicKey

\* the SDKs that have answered the economy request
Answered == {s \in {"ts", "unity"} : quote[s] # Nil}

\* reserve of the asset paid in and of the asset paid out
ReserveIn == IF request.isAsset1Input THEN pool.reserve1 ELSE pool.reserve2
ReserveOut == IF request.isAsset1Input THEN pool.reserve2 ELSE pool.reserve1

\* floor(a / b) of the exact integers a and b
Floor(a, b) == BigDiv(a, b)

\* the quote of the constant-product rule, every product exact
ExactQuote(reserveIn, reserveOut, x, feeRateBps) ==
  LET raw == BigSub(reserveOut,
                    Floor(BigMul(reserveIn, reserveOut), BigAdd(reserveIn, x)))
  IN BigSub(raw, Floor(BigMul(raw, BigOf(feeRateBps)), TenThousand))

\* a swap on a pool whose reserves are positive
SwapOnPositivePool ==
  request.op = "swap" /\ pool.reserve1 # Zero /\ pool.reserve2 # Zero

\* C11: the swap quote is raw - floor(raw * feeRateBps / 10000) with
\* raw = reserveOut - floor(reserveIn * reserveOut / (reserveIn + x)), on either
\* side; the pool 10000/20000 at 30 bps quotes 1814 and 476 for an input of 1000
C11_SwapQuoteFormula ==
  SwapOnPositivePool =>
    \A s \in Answered :
      /\ quote[s] = Returns(ExactQuote(ReserveIn, ReserveOut,
                                       request.inputAmount, pool.fee_rate))
      /\ (/\ pool.reserve1 = BigOf(10000) /\ pool.reserve2 = BigOf(20000)
          /\ pool.fee_rate = 30 /\ request.inputAmount = BigOf(1000)) =>
           quote[s].value = BigOf(IF request.isAsset1Input THEN 1814 ELSE 476)

\* the integer q is a quotient that only the exact product a * b explains:
\* q * d <= a * b < (q + 1) * d
IsExactQuotient(q, a, b, d) ==
  /\ BigLeq(BigMul(q, d), BigMul(a, b))
  /\ BigLess(BigMul(a, b), BigMul(BigAdd(q, BigOf(1)), d))

\* C12: for all 64-bit reserves the quote comes from the exact product
\* reserve1 * reserve2: with no fee and reserveIn + x within 64 bits,
\* reserveOut - quote is the floored quotient of the exact product by
\* reserveIn + x
C12_ExactProduct ==
  (/\ SwapOnPositivePool /\ pool.fee_rate = 0
   /\ BigLeq(BigAdd(ReserveIn, request.inputAmount), MaxU64)) =>
    \A s \in Answered :
      /\ quote[s].ok
      /\ BigLeq(quote[s].value, ReserveOut)
      /\ IsExactQuotient(BigSub(ReserveOut, quote[s].value), pool.reserve1,
                         pool.reserve2, BigAdd(ReserveIn, request.inputAmount))

\* C13: Unity's ComputeSwapOutput returns what TypeScript's calculateSwapAmount
\* returns, for every pool, input amount and direction
C13_SwapParity ==
  (request.op = "swap" /\ Answered = {"ts", "unity"}) =>
    quote["unity"] = quote["ts"]

\* C14: into a pool without liquidity, a deposit (amount1, amount2) earns the
\* integer square root s of amount1 * amount2: s * s <= amount1 * amount2 <
\* (s + 1) * (s + 1); (10000, 20000) earns 14142
C14_FirstDepositIsqrt ==
  (request.op = "shares" /\ pool.total_liquidity = Zero) =>
    \A s \in Answered :
      LET product == BigMul(request.reserve1Amount, request.reserve2Amount)
      IN /\ quote[s].ok
         /\ BigLeq(BigMul(quote[s].value, quote[s].value), product)
         /\ BigLess(product, BigMul(BigAdd(quote[s].value, BigOf(1)),
                                    BigAdd(quote[s].value, BigOf(1))))
         /\ (request.reserve1Amount = BigOf(10000)
               /\ request.reserve2Amount = BigOf(20000)) =>
              quote[s].value = BigOf(14142)

\* the smaller of two integers
BigMin(a, b) == IF BigLess(a, b) THEN a ELSE b

\* C15: into a pool with liquidity and positive reserves, a deposit earns
\* min(floor(amount1 * totalLiquidity / reserve1),
\*     floor(amount2 * totalLiquidity / reserve2)), the quotients exact
C15_ProportionalShares ==
  (/\ request.op = "shares" /\ pool.total_liquidity # Zero
   /\ pool.reserve1 # Zero /\ pool.reserve2 # Zero) =>
    \A s \in Answered :
      quote[s] =
        Returns(BigMin(Floor(BigMul(request.reserve1Amount, pool.total_liquidity),
                             pool.reserve1),
                       Floor(BigMul(request.reserve2Amount, pool.total_liquidity),
                             pool.reserve2)))

\* the request needs a ratio whose denominator is a reserve of value zero
ZeroDenominator ==
  /\ pool.reserve1 = Zero \/ pool.reserve2 = Zero
  /\ request.op = "shares" => pool.total_liquidity # Zero

\* C16: a quote or a share computation on a pool with a zero reserve is
\* reported as an error; no number is returned for it
C16_ZeroReserveIsError ==
  ZeroDenominator => \A s \in Answered : ~quote[s].ok

\* a string no hexadecimal decoding exists for: odd length, or a character
\* that is no hexadecimal digit
MalformedHex(s) ==
  Len(s) % 2 # 0 \/ \E i \in 1..Len(s) : ~IsHexChar(s[i])

\* C17: decoding a string of odd length, or one holding a character that is no
\* hexadecimal digit, reports a failure: no decoder returns a byte array for it
C17_MalformedHexFails ==
  (wire # Nil /\ wire.kind = "hex" /\ MalformedHex(wire.text)) =>
    \A d \in HexDecoders : decoded[d] # Nil => ~decoded[d].ok

\* a string that is no decimal numeral of a value in 0 .. 2^64 - 1
MalformedNumber(s) ==
  \/ ~AllDigits(s, 10)
  \/ BigLess(MaxU64, RadixValue(s, 10, Len(s)))

\* C18: decoding a numeric string that is empty, negative, not numeric or above
\* 2^64 - 1 reports an error: no decoder returns a number for it
C18_MalformedNumberFails ==
  (wire # Nil /\ wire.kind = "number" /\ MalformedNumber(wire.text)) =>
    \A d \in NumberDecoders : decoded[d] # Nil => ~decoded[d].ok

\* the fields of the transaction in the object an SDK sent: TypeScript sends
\* them at the top, Unity and Unreal under the variant's name
Body(sdk) == IF sdk = "ts" THEN transport[sdk] ELSE transport[sdk][tx.type]

\* the unsigned 64-bit quantities of a transaction
U64Keys == {"amount", "fee", "gas_limit", "nonce"}

\* C19: in the transport object of any transaction, amount, fee, gas limit and
\* nonce are decimal strings of their exact value, never JSON numbers
C19_U64AsDecimalString ==
  transport # Nil =>
    \A s \in SDKs :
      (transport[s] # Nil /\ transport[s] # EmptyFString) =>
        \A k \in U64Keys \cap DOMAIN Body(s) :
          Body(s)[k] = JString(UlongToString(tx[k]))

\* C20: reading the transport object back gives the transaction it was made of
C20_RoundTrip ==
  (transport # Nil /\ decoded # Nil) =>
    decoded.ok /\ decoded.value = UnityTransaction(tx)

(***************************************************************************)
(* Lifecycle and content hash                                               *)
(***************************************************************************)
\* C21: a builder returns a transaction with an empty signature; an object's
\* signature is set only while it is empty, by signing, and nothing else of the
\* object changes then; once the signature is set, no operation (another sign
\* included) changes the signature or any other field of that object
C21_SignedOnceThenImmutable ==
  [][/\ \A i \in 1..Len(objects) :
          objects'[i] # objects[i] =>
            /\ objects[i].fields.signature = <<>>
            /\ objects'[i].fields.signature # <<>>
            /\ objects'[i] =
                 [objects[i] EXCEPT !.fields.signature = objects'[i].fields.signature]
     /\ \A i \in (Len(objects) + 1)..Len(objects') :
          objects'[i].origin = "builder" => objects'[i].fields.signature = <<>>]_vars

\* C22: a byte array whose length is not the 32 bytes declared for an address,
\* a hash or a private key is rejected by every operation it is handed to: none
\* returns a transaction, a signed transaction, a payload, a key pair or a
\* transport object made from it
C22_WrongLengthRejected ==
  Len(given) # 32 =>
    \A op \in GuardedOperations : produced[op] # Nil => ~produced[op].ok

(***************************************************************************)
(* Submission                                                               *)
(***************************************************************************)
\* C23: when the node rejects the transaction, a submit call that has settled
\* has made exactly one request and has failed with an error whose message is
\* the node's error text, nothing added and nothing changed
C23_RejectionSurfacedVerbatim ==
  node.kind = "rejected" =>
    \A s \in DOMAIN submission :
      submission[s].pc = "done" =>
        /\ Len(submission[s].requests) = 1
        /\ ~submission[s].outcome.ok
        /\ submission[s].outcome.message = <<node.body.error[1]>>

(***************************************************************************)
(* Verification                                                             *)
(***************************************************************************)
\* the signature is the 64 bytes one of the model's keys makes for the
\* message, and the public key is that key's
WellSigned(message, signature, publicKey) ==
  /\ message # null /\ signature # null /\ publicKey # null
  /\ \E k \in PrivateKeys :
       EdPublicKey(k) = publicKey /\ EdSign(message, k) = signature

\* C24: verify never raises: for every message, signature and public key,
\* null, empty and wrong-length ones included, it returns a boolean, and the
\* boolean is true only for a valid signature of the message under the key
C24_VerifyNeverRaises ==
  \A s \in DOMAIN produced :
    produced[s] # Nil =>
      /\ ~produced[s].raised
      /\ produced[s].value
           <=> WellSigned(given.message, given.signature, given.publicKey)

\* both SDKs have returned false for a null signature over a real message
C24_Witness ==
  /\ given.signature = null
  /\ given.message = SignedMessage
  /\ \A s \in DOMAIN produced : produced[s] = Returned(FALSE)

\* both SDKs have returned true for a signature its key made
C24_WitnessValid ==
  \A s \in DOMAIN produced : produced[s] = Returned(TRUE)

\* the values of an object's fields other than the signature
NonSignatureFields(object) == [object.fields EXCEPT !.signature = <<>>]

\* C25: the content hash is a function of the non-signature field values only:
\* two TypeScript transactions with equal non-signature field values (a
\* transaction and its signed copy among them) have the same hash, however
\* and in whatever key order they were constructed
C25_HashOfFieldValuesOnly ==
  \A i, j \in 1..Len(objects) :
    /\ objects[i].sdk = "ts" /\ objects[j].sdk = "ts"
    /\ hashes[i] # Nil /\ hashes[j] # Nil
    /\ NonSignatureFields(objects[i]) = NonSignatureFields(objects[j])
    => hashes[i] = hashes[j]

\* the half of C25 about a signed copy: a transaction and the copy sign made
\* of it have the same hash
C25_SignedCopySameHash ==
  \A i, j \in 1..Len(objects) :
    /\ objects[i].sdk = "ts" /\ objects[j].sdk = "ts"
    /\ hashes[i] # Nil /\ hashes[j] # Nil
    /\ objects[i].keys = objects[j].keys
    /\ NonSignatureFields(objects[i]) = NonSignatureFields(objects[j])
    => hashes[i] = hashes[j]

(***************************************************************************)
(* Load test                                                                *)
(***************************************************************************)
\* C26: in every mode of the load test, no two submitted transactions signed
\* by the same sender key carry the same nonce
C26_NoncesUniquePerSender ==
  \A a, b \in submitted :
    a.signer = b.signer /\ a.nonce = b.nonce => a = b

\* the part of C26 that holds: the transfers of a run have distinct nonces
C26_TransferNoncesUnique ==
  \A a, b \in submitted :
    /\ a.type = "Transfer" /\ b.type = "Transfer"
    /\ a.signer = b.signer /\ a.nonce = b.nonce
    => a = b

\* how often the senders together have entered an iteration for an index
AttemptsOf(index) ==
  Cardinality({p \in UNION {{<<w, j>> : j \in 1..Len(workers[w].attempted)} :
                            w \in 1..Len(workers)} :
                 workers[p[1]].attempted[p[2]] = index})

\* every batch has returned: Promise.all resolves and the run reports
Finished == workers # <<>> /\ \A w \in 1..Len(workers) : ~Running(workers[w])

\* the counters while the run goes on
CountersBounded ==
  /\ stats.sent <= stats.success + stats.failed
  /\ stats.success + stats.failed
       <= stats.sent + Cardinality({w \in 1..Len(workers) : Running(workers[w])})

\* no index is attempted twice (a failed submission is not retried) and none
\* outside 0 .. txCount-1
NothingRetried ==
  /\ \A k \in 0..(config.txCount - 1) : AttemptsOf(k) <= 1
  /\ \A w \in 1..Len(workers) : \A j \in 1..Len(workers[w].attempted) :
       workers[w].attempted[j] \in 0..(config.txCount - 1)

\* the counters and the attempts when the run has ended
CompleteAtEnd ==
  Finished =>
    /\ stats.sent = config.txCount
    /\ stats.success + stats.failed = config.txCount
    /\ \A k \in 0..(config.txCount - 1) : AttemptsOf(k) = 1

\* C30: provided every submission eventually resolves or rejects, a run
\* terminates having attempted each index 0 .. txCount-1 exactly once; all
\* along sent <= success + failed <= sent + running senders; at the end
\* sent = txCount = success + failed; no failed submission is retried
C30_RunCompletesEachIndexOnce ==
  /\ [](CountersBounded /\ NothingRetried /\ CompleteAtEnd)
  /\ <>Finished

\* a run of three transactions over two senders has ended with a success and
\* a failure counted
C30_Witness ==
  /\ Finished
  /\ config.txCount = 3 /\ config.concurrent = 2
  /\ stats.success >= 1 /\ stats.failed >= 1

(***************************************************************************)
(* Payload and transport object                                             *)
(***************************************************************************)
\* C27: two transactions of the same variant that differ in a signed field
\* (which of chain_id and valid_until_height is set, and the Split component
\* string, included) never encode to the same bytes
C27_PayloadDeterminesSignedFields ==
  changed # "none" /\ base # Nil /\ base # tx =>
    \A s \in EncodedBoth : payload[s].bytes # basePayload[s].bytes

\* the case of C27 the chain-binding fields make: a value as chain_id against
\* the same value as valid_until_height, in the encoders that have the fields
C27_WhichChainField ==
  changed = "which chain field" =>
    \A s \in EncodedBoth \cap {"unity", "unreal"} :
      payload[s].bytes # basePayload[s].bytes

\* the SDKs whose signed payload holds the chain-binding fields
SignsChainFields == {"unity", "unreal"}

\* the object has the chain-binding field with the transaction's value
CarriesField(object, t, field) ==
  /\ field \in DOMAIN object[t.type]
  /\ object[t.type][field] = JNumber(t[field][1])

\* C28: a field whose value is in the signed payload, chain_id and
\* valid_until_height when set in particular, is in the transport object made
\* for the signed transaction, with the same value
C28_SignedFieldsInTransport ==
  \A s \in SignsChainFields :
    transport[s] # Nil /\ transport[s] # EmptyFString =>
      /\ tx.chain_id # None => CarriesField(transport[s], tx, "chain_id")
      /\ tx.valid_until_height # None =>
           CarriesField(transport[s], tx, "valid_until_height")

\* C28 for Unity's WriteJson alone
C28_UnityCarriesChainFields ==
  transport["unity"] # Nil =>
    /\ tx.chain_id # None => CarriesField(transport["unity"], tx, "chain_id")
    /\ tx.valid_until_height # None =>
         CarriesField(transport["unity"], tx, "valid_until_height")

(***************************************************************************)
(* Reserve product                                                          *)
(***************************************************************************)
\* the product of the reserves after a swap that pays the quoted output
ProductAfter(output) ==
  BigMul(BigAdd(ReserveIn, request.inputAmount), BigSub(ReserveOut, output))

\* the quote is an amount below the reserve it is paid from and leaves the
\* product of the reserves no smaller
KeepsProduct(q) ==
  /\ q.ok
  /\ ~q.negative
  /\ BigLess(q.value, ReserveOut)
  /\ BigLeq(BigMul(ReserveIn, ReserveOut), ProductAfter(q.value))

\* C29: a swap never decreases the product of the reserves: for positive
\* reserves, a 64-bit input and a fee rate within 0..10000,
\* (reserveIn + input) * (reserveOut - quote) >= reserveIn * reserveOut, and
\* the quote is non-negative and strictly less than reserveOut
C29_ProductNeverDecreases ==
  SwapOnPositivePool => \A s \in Answered : KeepsProduct(quote[s])

\* C29 for the TypeScript SDK alone
C29_TsProductNeverDecreases ==
  (SwapOnPositivePool /\ quote["ts"] # Nil) => KeepsProduct(quote["ts"])

====
